---- MODULE Spec2Model ----
(***************************************************************************)
(* Lup Shots (src/app.py): the path/file-name metadata parser, the catalog *)
(* built by MainWindow._load_samples, and the filter / order / suggestion  *)
(* pipeline driven by the MainWindow event handlers.                       *)
(*                                                                         *)
(* A Python str is modelled as a sequence of one-character strings, so     *)
(* that case folding, accent stripping, splitting, substring search and    *)
(* code-point comparison are computed and not assumed.                     *)
(***************************************************************************)
EXTENDS Integers, Sequences, FiniteSets, TLC

(***************************************************************************)
(* Characters                                                              *)
(***************************************************************************)

\* U+0301 COMBINING ACUTE ACCENT (category Mn), produced by NFD.
CombAcute == "U+0301"

\* The characters of the model, in increasing code-point order.
CodeOrder ==
    << " ", "#", "-", ".", "0", "1", "2", "3", "4", "5", "6", "7", "8", "9",
       "A", "B", "C", "D", "E", "F", "G", "H", "I", "J", "K", "L", "M", "N",
       "O", "P", "Q", "R", "S", "T", "U", "V", "W", "X", "Y", "Z", "_",
       "a", "b", "c", "d", "e", "f", "g", "h", "i", "j", "k", "l", "m", "n",
       "o", "p", "q", "r", "s", "t", "u", "v", "w", "x", "y", "z",
       "²", "Á", "É", "á", "é", CombAcute >>

\* the function that maps the first n characters of a list to the
\* characters at the same index of another list
RECURSIVE CharMap(_, _, _)
CharMap(from, to, n) ==
    IF n = 1 THEN from[1] :> to[1]
    ELSE CharMap(from, to, n - 1) @@ (from[n] :> to[n])

OrdTable == CharMap(CodeOrder, [i \in 1..Len(CodeOrder) |-> i], Len(CodeOrder))

\* Rank of a character in code-point order (str comparison is by code point).
Ord(c) == OrdTable[c]

UpperLetters == << "A", "B", "C", "D", "E", "F", "G", "H", "I", "J", "K", "L", "M",
                   "N", "O", "P", "Q", "R", "S", "T", "U", "V", "W", "X", "Y", "Z",
                   "Á", "É" >>

LowerLetters == << "a", "b", "c", "d", "e", "f", "g", "h", "i", "j", "k", "l", "m",
                   "n", "o", "p", "q", "r", "s", "t", "u", "v", "w", "x", "y", "z",
                   "á", "é" >>

LowerTable == CharMap(UpperLetters, LowerLetters, Len(UpperLetters))
UpperTable == CharMap(LowerLetters, UpperLetters, Len(LowerLetters))

\* str.lower() / str.upper() on one character.
LowerChar(c) == IF c \in DOMAIN LowerTable THEN LowerTable[c] ELSE c

UpperChar(c) == IF c \in DOMAIN UpperTable THEN UpperTable[c] ELSE c

\* unicodedata.normalize("NFD", c) for one character.
NfdChar(c) ==
    CASE c = "á" -> << "a", CombAcute >>
      [] c = "é" -> << "e", CombAcute >>
      [] c = "Á" -> << "A", CombAcute >>
      [] c = "É" -> << "E", CombAcute >>
      [] OTHER   -> << c >>

\* unicodedata.category(ch) == "Mn"
IsMn(c) == c = CombAcute

\* Python's \s and str.strip()/str.split() whitespace
IsSpace(c) == c = " "

DecimalDigits == << "0", "1", "2", "3", "4", "5", "6", "7", "8", "9" >>

\* \d in a str pattern and the characters int() accepts (category Nd).
IsDecimal(c) == \E i \in 1..10 : DecimalDigits[i] = c

\* str.isdigit() also accepts digits that are not decimal (SUPERSCRIPT TWO).
IsDigitChar(c) == IsDecimal(c) \/ c = "²"

DigitVal(c) == (CHOOSE i \in 1..10 : DecimalDigits[i] = c) - 1

(***************************************************************************)
(* str operations                                                          *)
(***************************************************************************)

RECURSIVE Flatten(_)
Flatten(ss) == IF ss = << >> THEN << >> ELSE Head(ss) \o Flatten(Tail(ss))

Lower(s) == [i \in 1..Len(s) |-> LowerChar(s[i])]
Upper(s) == [i \in 1..Len(s) |-> UpperChar(s[i])]

Nfd(s) == Flatten([i \in 1..Len(s) |-> NfdChar(s[i])])

\* src/app.py:63-65
strip_accents_lower(s) == Lower(SelectSeq(Nfd(s), LAMBDA ch : ~IsMn(ch)))

\* a < b for two str, as Python compares them
RECURSIVE StrLess(_, _)
StrLess(a, b) ==
    IF b = << >> THEN FALSE
    ELSE IF a = << >> THEN TRUE
    ELSE IF Head(a) = Head(b) THEN StrLess(Tail(a), Tail(b))
    ELSE Ord(Head(a)) < Ord(Head(b))

\* first index >= 1 at which sep occurs in s, 0 if none (str.find + 1)
Find(s, sep) ==
    LET hits == { i \in 1..(Len(s) - Len(sep) + 1) : SubSeq(s, i, i + Len(sep) - 1) = sep }
    IN  IF hits = {} THEN 0 ELSE CHOOSE i \in hits : \A j \in hits : i <= j

\* t in s
IsSubstring(t, s) == \E i \in 0..(Len(s) - Len(t)) : \A k \in 1..Len(t) : s[i + k] = t[k]

\* s.split(sep) with a non-empty separator
RECURSIVE Split(_, _)
Split(s, sep) ==
    LET j == Find(s, sep)
    IN  IF j = 0 THEN << s >>
        ELSE << SubSeq(s, 1, j - 1) >> \o Split(SubSeq(s, j + Len(sep), Len(s)), sep)

\* s.strip()
RECURSIVE LStrip(_)
LStrip(s) == IF s # << >> /\ IsSpace(Head(s)) THEN LStrip(Tail(s)) ELSE s

RECURSIVE RStrip(_)
RStrip(s) == IF s # << >> /\ IsSpace(s[Len(s)]) THEN RStrip(SubSeq(s, 1, Len(s) - 1)) ELSE s

Strip(s) == RStrip(LStrip(s))

\* s.split(): the maximal runs of non-whitespace characters
RECURSIVE SplitWs(_)
SplitWs(s) ==
    LET t == LStrip(s)
        ends == { i \in 1..Len(t) : IsSpace(t[i]) }
        e == IF ends = {} THEN Len(t) + 1 ELSE CHOOSE i \in ends : \A j \in ends : i <= j
    IN  IF t = << >> THEN << >>
        ELSE << SubSeq(t, 1, e - 1) >> \o SplitWs(SubSeq(t, e, Len(t)))

\* sep.join(list)
RECURSIVE Join(_, _)
Join(sep, ss) ==
    IF ss = << >> THEN << >>
    ELSE IF Len(ss) = 1 THEN ss[1]
    ELSE ss[1] \o sep \o Join(sep, Tail(ss))

\* s.replace(a, b) for single characters
ReplaceChar(s, a, b) == [i \in 1..Len(s) |-> IF s[i] = a THEN b ELSE s[i]]

\* [t for t in list if t]
NonEmpty(ss) == SelectSeq(ss, LAMBDA t : t # << >>)

\* list(dict.fromkeys(list)): first occurrences, in order
RECURSIVE Unique(_)
Unique(ss) ==
    IF ss = << >> THEN << >>
    ELSE LET r == Unique(SubSeq(ss, 1, Len(ss) - 1))
             x == ss[Len(ss)]
         IN  IF \E i \in 1..Len(r) : r[i] = x THEN r ELSE Append(r, x)

\* set(list)
Range(ss) == { ss[i] : i \in 1..Len(ss) }

\* int(s) for a str of decimal digits
RECURSIVE DecimalValue(_)
DecimalValue(s) ==
    IF s = << >> THEN 0
    ELSE 10 * DecimalValue(SubSeq(s, 1, Len(s) - 1)) + DigitVal(s[Len(s)])

\* str(n) for n >= 0
RECURSIVE IntToStr(_)
IntToStr(n) ==
    IF n < 10 THEN << DecimalDigits[n + 1] >>
    ELSE Append(IntToStr(n \div 10), DecimalDigits[(n % 10) + 1])

(***************************************************************************)
(* Regular expressions used by the parser                                  *)
(***************************************************************************)

\* index of the last "." of s, 0 if none
LastDot(s) ==
    LET dots == { i \in 1..Len(s) : s[i] = "." }
    IN  IF dots = {} THEN 0 ELSE CHOOSE i \in dots : \A j \in dots : j <= i

\* re.sub(r"\.[^.]+$", "", filename): drop the last dot-suffix, if not empty
StripExt(filename) ==
    LET d == LastDot(filename)
    IN  IF d = 0 \/ d = Len(filename) THEN filename ELSE SubSeq(filename, 1, d - 1)

\* pathlib's PurePath.suffix of a file name
Suffix(name) ==
    LET d == LastDot(name)
    IN  IF d <= 1 \/ d = Len(name) THEN << >> ELSE SubSeq(name, d, Len(name))

\* pat matches s at index k, ignoring case (flags=re.I)
MatchAtCI(s, k, pat) ==
    /\ k >= 1
    /\ k + Len(pat) - 1 <= Len(s)
    /\ Lower(SubSeq(s, k, k + Len(pat) - 1)) = Lower(pat)

\* the maximal run of characters other than "_" that starts at index k
RunNoUnderscore(s, k) ==
    LET stops == { i \in k..Len(s) : s[i] = "_" }
        e == IF stops = {} THEN Len(s) + 1 ELSE CHOOSE i \in stops : \A j \in stops : i <= j
    IN  SubSeq(s, k, e - 1)

\* re.search(r"(?:^|_)NAME_([^_]+)", tail, flags=re.I) with field = "NAME_":
\* the leftmost occurrence at the start or after "_" that is followed by at
\* least one character other than "_"; group is group(1).
ReSearchField(tail, field) ==
    LET hits == { k \in 1..Len(tail) :
                    /\ k = 1 \/ tail[k - 1] = "_"
                    /\ MatchAtCI(tail, k, field)
                    /\ k + Len(field) <= Len(tail)
                    /\ tail[k + Len(field)] # "_" }
        k0 == CHOOSE k \in hits : \A j \in hits : k <= j
    IN  IF hits = {} THEN [matched |-> FALSE, group |-> << >>]
        ELSE [matched |-> TRUE, group |-> RunNoUnderscore(tail, k0 + Len(field))]

\* re.sub(pat + ".*", "", s, flags=re.I): cut s at the first occurrence of pat
CutAtCI(s, pat) ==
    LET hits == { k \in 1..Len(s) : MatchAtCI(s, k, pat) }
    IN  IF hits = {} THEN s
        ELSE SubSeq(s, 1, (CHOOSE k \in hits : \A j \in hits : k <= j) - 1)

\* number of characters at the end of s that are in the class chars
TrailingRun(s, chars) ==
    LET runs == { n \in 0..Len(s) : \A i \in (Len(s) - n + 1)..Len(s) : s[i] \in chars }
    IN  CHOOSE n \in runs : \A m \in runs : m <= n

(***************************************************************************)
(* Parser, src/app.py:67-197                                               *)
(***************************************************************************)

XSep    == << "_", "X", "_" >>
KeyTag  == << "K", "E", "Y", "_" >>
BpmTag  == << "B", "P", "M", "_" >>
NoWord  == << "N", "O" >>
Oneshot == << "O", "N", "E", "S", "H", "O", "T" >>
Loop    == << "L", "O", "O", "P" >>
Genero  == << "G", "E", "N", "E", "R", "O", "_" >>

\* the cleanup without the fallback to the title it was given
_clean_title_strip_number(title) ==
    LET Spaces == { c \in Range(CodeOrder) : IsSpace(c) }
        Digits == { c \in Range(CodeOrder) : IsDecimal(c) }
        Seps   == { c \in Range(CodeOrder) : IsSpace(c) \/ c = "-" }
        Cut(s, chars) == SubSeq(s, 1, Len(s) - TrailingRun(s, chars))
        Sub(s1) == IF TrailingRun(s1, Digits) = 0 THEN title
                   ELSE Cut(Cut(s1, Digits), Seps)
    IN  Strip(Sub(Cut(title, Spaces)))

\* src/app.py:67-70. re.sub(r"[\s\-]*\d+\s*$", "", title).strip() or title
_clean_title_remove_trailing_number(title) ==
    LET Spaces == { c \in Range(CodeOrder) : IsSpace(c) }
        Digits == { c \in Range(CodeOrder) : IsDecimal(c) }
        Seps   == { c \in Range(CodeOrder) : IsSpace(c) \/ c = "-" }
        Cut(s, chars) == SubSeq(s, 1, Len(s) - TrailingRun(s, chars))
        \* s1 is title without its trailing whitespace: the pattern matches
        \* when digits end s1
        Sub(s1) == IF TrailingRun(s1, Digits) = 0 THEN title
                   ELSE Cut(Cut(s1, Digits), Seps)
        OrTitle(t) == IF t # << >> THEN t ELSE title
    IN  OrTitle(Strip(Sub(Cut(title, Spaces))))

\* key = (mkey.group(1).upper() if mkey else "").strip(); "" if empty or "NO"
ParseKey(mkey) ==
    LET OrEmpty(key) == IF key = << >> \/ key = NoWord THEN << >> ELSE key
    IN  OrEmpty(Strip(IF mkey.matched THEN Upper(mkey.group) ELSE << >>))

\* bpm_txt is converted when it is not "NO" and bpm_txt.isdigit()
BpmConverted(mbpm) ==
    LET Digit(bpm_txt) ==
            /\ Upper(bpm_txt) # NoWord
            /\ bpm_txt # << >>
            /\ \A i \in 1..Len(bpm_txt) : IsDigitChar(bpm_txt[i])
    IN  mbpm.matched /\ Digit(Strip(mbpm.group))

\* int(bpm_txt) raises ValueError on a digit that is not decimal
BpmRaises(mbpm) ==
    LET NotDecimal(bpm_txt) == \E i \in 1..Len(bpm_txt) : ~IsDecimal(bpm_txt[i])
    IN  BpmConverted(mbpm) /\ NotDecimal(Strip(mbpm.group))

ParseBpm(mbpm) ==
    IF BpmConverted(mbpm) /\ ~BpmRaises(mbpm)
    THEN DecimalValue(Strip(mbpm.group))
    ELSE 0

\* title = tail up to _KEY_ / _BPM_, "_" -> " ", stripped, or base
ParseTitle(tail, base) ==
    LET OrBase(t) == IF t # << >> THEN t ELSE base
    IN  OrBase(Strip(ReplaceChar(CutAtCI(CutAtCI(tail, << "_" >> \o KeyTag),
                                         << "_" >> \o BpmTag), "_", " ")))

\* the fields both filename parsers read from tail, src/app.py:128-145 and
\* 178-193
TailFields(tail, base, mbpm) ==
    [raised |-> BpmRaises(mbpm),
     title  |-> ParseTitle(tail, base),
     key    |-> ParseKey(ReSearchField(tail, KeyTag)),
     bpm    |-> ParseBpm(mbpm)]

\* src/app.py:115-149
_parse_filename_piecewise(filename) ==
    LET Result(sp_from_name, f) ==
            [raised |-> f.raised,
             meta   |-> [sample_type |-> << >>, genres |-> << >>, generals |-> << >>,
                         specifics |-> sp_from_name, title |-> f.title,
                         key |-> f.key, bpm |-> f.bpm]]
        FromTail(pre, tail, base) ==
            Result(NonEmpty(Split(pre, << "_" >>)),
                   TailFields(tail, base, ReSearchField(tail, BpmTag)))
        FromParts(parts, base) ==
            FromTail(parts[1], IF Len(parts) > 1 THEN parts[2] ELSE << >>, base)
        FromBase(base) == FromParts(Split(base, XSep), base)
    IN  FromBase(StripExt(filename))

\* s[n:] for a str
DropFirst(s, n) == SubSeq(s, n + 1, Len(s))

StartsWith(s, prefix) == Len(s) >= Len(prefix) /\ SubSeq(s, 1, Len(prefix)) = prefix

\* the name is parsed as a name of the folder grammar
_parse_legacy_filename_flat(filename) == _parse_filename_piecewise(filename)

\* src/app.py:151-197
_parse_legacy_filename(filename) ==
    LET Result(sample_type, genres, generals, specifics, f) ==
            [raised |-> f.raised,
             meta   |-> [sample_type |-> sample_type, genres |-> genres,
                         generals |-> generals, specifics |-> specifics,
                         title |-> f.title, key |-> f.key, bpm |-> f.bpm]]
        Tokens(t) == NonEmpty(Split(Strip(t), << "_" >>))
        NoGenero(graw) ==
            IF MatchAtCI(graw, 1, Genero) THEN DropFirst(graw, Len(Genero)) ELSE graw
        FromTail(sample_type, parts, base, tail) ==
            Result(sample_type,
                   NonEmpty(Split(NoGenero(Strip(parts[1])), << "_" >>)),
                   Tokens(IF Len(parts) > 1 THEN parts[2] ELSE << >>),
                   Tokens(IF Len(parts) > 2 THEN parts[3] ELSE << >>),
                   TailFields(tail, base, ReSearchField(tail, BpmTag)))
        FromParts(sample_type, parts, base) ==
            FromTail(sample_type, parts, base,
                     IF Len(parts) > 3 THEN Join(XSep, SubSeq(parts, 4, Len(parts)))
                     ELSE << >>)
        FromBase(sample_type, base) == FromParts(sample_type, Split(base, XSep), base)
        \* prefix is "ONESHOT", "LOOP" or "", the one base0 starts with
        FromPrefix(base0, prefix) ==
            FromBase(Lower(prefix),
                     IF prefix = << >> THEN base0 ELSE DropFirst(base0, Len(prefix) + 1))
        FromUpper(base0, up) ==
            FromPrefix(base0, IF StartsWith(up, Oneshot \o << "_" >>) THEN Oneshot
                              ELSE IF StartsWith(up, Loop \o << "_" >>) THEN Loop
                              ELSE << >>)
        FromBase0(base0) == FromUpper(base0, Upper(base0))
    IN  FromBase0(StripExt(filename))

\* path.relative_to(root), or path itself when root is no prefix of it
RelativeParts(path, root) ==
    IF Len(root) <= Len(path) /\ SubSeq(path, 1, Len(root)) = root
    THEN SubSeq(path, Len(root) + 1, Len(path))
    ELSE path

\* src/app.py:72-113. A path is the sequence of its components. raised is
\* TRUE when the call ends in an exception (parts[-1] of an empty list, int()).
parse_from_path(path, root) ==
    LET Merge(m0, sample_type, genres, generals, specifics) ==
            [m0 EXCEPT !.sample_type = IF sample_type # << >> THEN sample_type ELSE @,
                       !.genres      = IF genres # << >> THEN genres ELSE @,
                       !.generals    = IF generals # << >> THEN generals ELSE @,
                       !.specifics   = IF specifics # << >> THEN Unique(specifics \o @) ELSE @,
                       !.title       = _clean_title_remove_trailing_number(@)]
        Return(res, sample_type, genres, generals, specifics) ==
            IF res.raised THEN [raised |-> TRUE, meta |-> << >>]
            ELSE [raised |-> FALSE,
                  meta |-> Merge(res.meta, sample_type, genres, generals, specifics)]
        FromParts(parts) ==
            IF parts = << >> THEN [raised |-> TRUE, meta |-> << >>]
            ELSE IF Len(parts) >= 2 /\ Upper(parts[1]) \in {Oneshot, Loop}
            THEN Return(_parse_filename_piecewise(parts[Len(parts)]),
                        Lower(parts[1]),
                        << parts[2] >>,
                        IF Len(parts) >= 3 THEN << parts[3] >> ELSE << >>,
                        IF Len(parts) > 4 THEN SubSeq(parts, 4, Len(parts) - 1) ELSE << >>)
            ELSE Return(_parse_legacy_filename(parts[Len(parts)]),
                        << >>, << >>, << >>, << >>)
    IN  FromParts(RelativeParts(path, root))

(***************************************************************************)
(* The sample folders on disk (the input of the scan)                      *)
(***************************************************************************)

\* A/LOOP/trap/keys/pad_X_Ébano_KEY_C_BPM_120.wav
FileA1 ==
    << << "A" >>,
       << "L", "O", "O", "P" >>,
       << "t", "r", "a", "p" >>,
       << "k", "e", "y", "s" >>,
       << "p", "a", "d", "_", "X", "_", "É", "b", "a", "n", "o", "_", "K", "E", "Y", "_", "C", "_", "B", "P", "M", "_", "1", "2", "0", ".", "w", "a", "v" >> >>

\* A/ONESHOT/trap/drums/kick_X_ebano 2_KEY_NO_BPM_NO.wav
FileA2 ==
    << << "A" >>,
       << "O", "N", "E", "S", "H", "O", "T" >>,
       << "t", "r", "a", "p" >>,
       << "d", "r", "u", "m", "s" >>,
       << "k", "i", "c", "k", "_", "X", "_", "e", "b", "a", "n", "o", " ", "2", "_", "K", "E", "Y", "_", "N", "O", "_", "B", "P", "M", "_", "N", "O", ".", "w", "a", "v" >> >>

\* A/zz_X_fx_X_riser_X_Alto_KEY_F#_BPM_350.wav
FileA3 ==
    << << "A" >>,
       << "z", "z", "_", "X", "_", "f", "x", "_", "X", "_", "r", "i", "s", "e", "r", "_", "X", "_", "A", "l", "t", "o", "_", "K", "E", "Y", "_", "F", "#", "_", "B", "P", "M", "_", "3", "5", "0", ".", "w", "a", "v" >> >>

\* A/notes.txt
FileA4 ==
    << << "A" >>,
       << "n", "o", "t", "e", "s", ".", "t", "x", "t" >> >>

\* B/LOOP/house/drums/kick_X_ebano 2_KEY_NO_BPM_NO.wav
FileB1 ==
    << << "B" >>,
       << "L", "O", "O", "P" >>,
       << "h", "o", "u", "s", "e" >>,
       << "d", "r", "u", "m", "s" >>,
       << "k", "i", "c", "k", "_", "X", "_", "e", "b", "a", "n", "o", " ", "2", "_", "K", "E", "Y", "_", "N", "O", "_", "B", "P", "M", "_", "N", "O", ".", "w", "a", "v" >> >>

FolderA == << << "A" >> >>
FolderB == << << "B" >> >>
FolderC == << << "C" >> >>

\* a folder that holds the same file name in two subfolders:
\* C/ONESHOT/trap/drums/kick_X_ebano 2_KEY_NO_BPM_NO.wav,
\* C/LOOP/house/drums/kick_X_ebano 2_KEY_NO_BPM_NO.wav and
\* C/LOOP/trap/keys/pad_X_Ébano_KEY_C_BPM_120.wav
FilesC == { [f EXCEPT ![1] = FolderC[1]] : f \in { FileA1, FileA2, FileB1 } }

Folders == { FolderA, FolderB }

\* the files below a folder
DiskFiles(dir) ==
    IF dir = FolderA THEN { FileA1, FileA2, FileA3, FileA4 }
    ELSE IF dir = FolderB THEN { FileB1 }
    ELSE FilesC

\* src/app.py:36
VALID_EXTS == { << ".", "w", "a", "v" >>, << ".", "a", "i", "f", "f" >>, << ".", "a", "i", "f" >>,
                << ".", "m", "p", "3" >>, << ".", "f", "l", "a", "c" >>, << ".", "o", "g", "g" >> }

(***************************************************************************)
(* Sorting                                                                 *)
(***************************************************************************)

\* a < b for two lists of str (the components of two paths)
RECURSIVE PathLess(_, _)
PathLess(a, b) ==
    IF b = << >> THEN FALSE
    ELSE IF a = << >> THEN TRUE
    ELSE IF Head(a) = Head(b) THEN PathLess(Tail(a), Tail(b))
    ELSE StrLess(Head(a), Head(b))

\* sorted(files): insertion of one path into a sorted list
RECURSIVE InsertPath(_, _)
InsertPath(sorted, p) ==
    IF sorted = << >> THEN << p >>
    ELSE IF PathLess(p, Head(sorted)) THEN << p >> \o sorted
    ELSE << Head(sorted) >> \o InsertPath(Tail(sorted), p)

RECURSIVE SortedPaths(_)
SortedPaths(set) ==
    IF set = {} THEN << >>
    ELSE LET p == CHOOSE q \in set : TRUE
         IN  InsertPath(SortedPaths(set \ { p }), p)

(***************************************************************************)
(* Catalog, src/app.py:1087-1126                                           *)
(***************************************************************************)

\* src/app.py:1087-1094
_collect_files(dir) ==
    SortedPaths({ p \in DiskFiles(dir) : Lower(Suffix(p[Len(p)])) \in VALID_EXTS })

\* the key is not made a tag
TagsFlat_nokey(meta) ==
    meta.genres \o meta.generals \o meta.specifics
        \o (IF meta.sample_type # << >> THEN << meta.sample_type >> ELSE << >>)
        \o (IF meta.bpm # 0 THEN << IntToStr(meta.bpm) >> ELSE << >>)

\* src/app.py:1103-1109
TagsFlat(meta) ==
    meta.genres \o meta.generals \o meta.specifics
        \o (IF meta.key # << >> THEN << meta.key >> ELSE << >>)
        \o (IF meta.sample_type # << >> THEN << meta.sample_type >> ELSE << >>)
        \o (IF meta.bpm # 0 THEN << IntToStr(meta.bpm) >> ELSE << >>)

\* src/app.py:1100-1119, the info dict of one file (waveform data left out)
SampleInfo(p, dir) ==
    LET Info(meta, name, tags_flat) ==
            [path |-> p, filename |-> name,
             genres |-> meta.genres, generals |-> meta.generals, specifics |-> meta.specifics,
             title |-> meta.title, key |-> meta.key,
             sample_type |-> meta.sample_type, bpm |-> meta.bpm,
             haystack |-> strip_accents_lower(Join(<< " " >>, tags_flat \o << meta.title, name >>)),
             tagset |-> Range(tags_flat)]
        FromMeta(meta) == Info(meta, p[Len(p)], TagsFlat(meta))
    IN  FromMeta(parse_from_path(p, dir).meta)

\* src/app.py:1099-1125, the loop that appends one info dict per file
RECURSIVE ScanFiles(_, _)
ScanFiles(files, dir) ==
    IF files = << >> THEN << >>
    ELSE << SampleInfo(Head(files), dir) >> \o ScanFiles(Tail(files), dir)

\* self.samples after _load_samples in each folder (a scan reads the disk,
\* which no handler changes)
Scanned == [dir \in Folders \cup { FolderC } |-> ScanFiles(_collect_files(dir), dir)]

LoadedSamples(dir) == Scanned[dir]

\* self.rows after _load_samples: one SampleRow per file; a new widget is
\* not visible until it is shown
LoadedRows(smp, favs) ==
    [i \in 1..Len(smp) |-> [isFav |-> smp[i].filename \in favs,
                            isPlaying |-> FALSE, visible |-> FALSE]] \o << >>

(***************************************************************************)
(* Filter criteria, src/app.py:1209-1235                                   *)
(***************************************************************************)

\* the handler keeps the raw words of the text
SearchTokens_raw(text) == NonEmpty(SplitWs(Strip(text)))

\* src/app.py:1139, [strip_accents_lower(t) for t in text.strip().split() if t]
NormalizedWords(words) == [k \in 1..Len(words) |-> strip_accents_lower(words[k])]

SearchTokens(text) == NormalizedWords(NonEmpty(SplitWs(Strip(text))))

\* src/app.py:1211-1213
TextCriterion(s, tokens) ==
    \A k \in 1..Len(tokens) : IsSubstring(tokens[k], s.haystack)

\* one included tag is enough
TagCriterion_any(s, include, exclude) ==
    /\ ~(include # {} /\ (include \cap s.tagset) = {})
    /\ ~(exclude # {} /\ (exclude \cap s.tagset) # {})

\* src/app.py:1215-1217
TagCriterion(s, include, exclude) ==
    /\ ~(include # {} /\ ~(include \subseteq s.tagset))
    /\ ~(exclude # {} /\ (exclude \cap s.tagset) # {})

\* src/app.py:1219-1221
TypeCriterion(s, ftype) ==
    ~(ftype # << >> /\ s.sample_type # ftype)

\* a sample without key passes
KeyCriterion_nokey(s, keys) ==
    ~(keys # {} /\ s.key # << >> /\ s.key \notin keys)

\* src/app.py:1223-1226
KeyCriterion(s, keys) ==
    ~(keys # {} /\ (s.key = << >> \/ s.key \notin keys))

\* the range is applied to a sample without bpm too
BpmCriterion_zero(s, mn, mx, exact) ==
    IF exact # 0 THEN s.bpm = exact
    ELSE mn <= s.bpm /\ s.bpm <= mx

\* src/app.py:1228-1235
BpmCriterion(s, mn, mx, exact) ==
    IF exact # 0 THEN s.bpm = exact
    ELSE ~(s.bpm # 0 /\ ~(mn <= s.bpm /\ s.bpm <= mx))

\* the key is the normalized title alone
SortKeyLess_title(a, b, favs) ==
    StrLess(strip_accents_lower(a.title), strip_accents_lower(b.title))

\* the title is compared as it is
SortKeyLess_raw(a, b, favs) ==
    LET fa == IF a.filename \in favs THEN 0 ELSE 1
        fb == IF b.filename \in favs THEN 0 ELSE 1
    IN  \/ fa < fb
        \/ (fa = fb /\ StrLess(a.title, b.title))

\* src/app.py:1241-1242, the sort keys of the rows of samples a and b,
\* compared as tuples
SortKeyLess(a, b, favs) ==
    LET fa == IF a.filename \in favs THEN 0 ELSE 1
        fb == IF b.filename \in favs THEN 0 ELSE 1
    IN  \/ fa < fb
        \/ (fa = fb /\ StrLess(strip_accents_lower(a.title), strip_accents_lower(b.title)))

\* list.sort is stable: a row is inserted after the rows whose key is not greater
RECURSIVE InsertRow(_, _, _, _)
InsertRow(sorted, i, smp, favs) ==
    IF sorted = << >> THEN << i >>
    ELSE LET last == sorted[Len(sorted)]
         IN  IF SortKeyLess(smp[i], smp[last], favs)
             THEN Append(InsertRow(SubSeq(sorted, 1, Len(sorted) - 1), i, smp, favs), last)
             ELSE Append(sorted, i)

\* src/app.py:1241-1242, visible_rows.sort(key=...) of a list of row indices
RECURSIVE SortRows(_, _, _)
SortRows(list, smp, favs) ==
    IF list = << >> THEN << >>
    ELSE InsertRow(SortRows(SubSeq(list, 1, Len(list) - 1), smp, favs),
                   list[Len(list)], smp, favs)

\* src/app.py:877-879, the sort key (-count, tag) of a suggestion
SuggestionLess(x, y) ==
    \/ x[2] > y[2]
    \/ (x[2] = y[2] /\ StrLess(x[1], y[1]))

\* sorted() of a set of (tag, count) with distinct tags
RECURSIVE InsertSuggestion(_, _)
InsertSuggestion(sorted, x) ==
    IF sorted = << >> THEN << x >>
    ELSE IF SuggestionLess(x, Head(sorted)) THEN << x >> \o sorted
    ELSE << Head(sorted) >> \o InsertSuggestion(Tail(sorted), x)

RECURSIVE SortedSuggestions(_)
SortedSuggestions(set) ==
    IF set = {} THEN << >>
    ELSE LET x == CHOOSE y \in set : TRUE
         IN  InsertSuggestion(SortedSuggestions(set \ { x }), x)

\* src/app.py:877-879: TagRow.setData, the new _tags
setData(tags_with_count, ignored) ==
    SortedSuggestions({ t \in tags_with_count : t[1] \notin ignored })

\* src/app.py:1260-1267: the items of the Counter; shown tells for each row
\* whether row.isVisible()
TagCounts(smp, shown, include, exclude) ==
    LET seen == { i \in 1..Len(smp) : shown[i] }
        tags == { t \in UNION { smp[i].tagset : i \in seen } :
                    ~(t \in include \/ t \in exclude) }
    IN  { << t, Cardinality({ i \in seen : t \in smp[i].tagset }) >> : t \in tags }

(***************************************************************************)
(* MainWindow state                                                        *)
(***************************************************************************)

VARIABLES
    phase,                 \* "constructed": __init__ has returned; "running": shown, event loop runs
    samples_dir,           \* self.samples_dir
    samples,               \* self.samples, the info dict of each scanned file
    rows,                  \* self.rows, the SampleRow of each file: isFav, isPlaying, visible
    favorites,             \* self.favorites, a set of file names
    filter_keys, filter_scale, filter_type,
    filter_bpm_min, filter_bpm_max, filter_bpm_exact,
    include_tags, exclude_tags, search_tokens,
    search_text,           \* self.search.text(), the text of the search box
    listLayout,            \* the rows of self.listLayout, top to bottom (indices into rows)
    _ordered_visible_rows, \* self._ordered_visible_rows (indices into rows)
    _current_row,          \* self._current_row: an index into rows, 0 for None
    player,                \* self.player: its playbackState and its source (a path)
    popover,               \* self.popover (the player popover) is shown
    tagRow,                \* self.tagRow: _tags, the list of (tag, count), and _ignored
    parse_call,            \* one call of parse_from_path: its arguments and its outcome
    clean_call,            \* one call of _clean_title_remove_trailing_number
    assigned,              \* the attributes of self that have been assigned
    filterPopovers,        \* isVisible() of self.keyPop, self.bpmPop and self.typePop
    _active_popover,       \* self._active_popover: "keyPop", "bpmPop", "typePop" or "None"
    _active_button         \* self._active_button: "btnKey", "btnBPM", "btnType" or "None"

filterVars == << filter_keys, filter_scale, filter_type, filter_bpm_min, filter_bpm_max,
                 filter_bpm_exact, include_tags, exclude_tags, search_tokens, search_text >>

vars == << phase, samples_dir, samples, rows, favorites, filter_keys, filter_scale,
           filter_type, filter_bpm_min, filter_bpm_max, filter_bpm_exact, include_tags,
           exclude_tags, search_tokens, search_text, listLayout, _ordered_visible_rows,
           _current_row, player, popover, tagRow, parse_call, clean_call, assigned,
           filterPopovers, _active_popover, _active_button >>

popoverVars == << filterPopovers, _active_popover, _active_button >>

\* src/app.py:970-972, the filter popovers and the buttons that open them
FilterPopovers == { "keyPop", "bpmPop", "typePop" }

\* the attributes of self that the handlers read, assigned by __init__ and
\* the calls it makes (src/app.py:927-976, 1023-1042, 1097-1126, 1247)
Attributes ==
    { "samples_dir", "player", "filter_keys", "filter_scale", "filter_type",
      "filter_bpm_min", "filter_bpm_max", "filter_bpm_exact", "include_tags",
      "exclude_tags", "search_tokens", "favorites", "search", "listLayout", "tagRow",
      "samples", "rows", "_ordered_visible_rows", "_current_row", "popover", "keyPop",
      "bpmPop", "typePop", "_active_popover", "_active_button" }

\* the upper limit of the number of tags in include_tags and exclude_tags together
MaxActiveTags == 2

(***************************************************************************)
(* User inputs                                                             *)
(***************************************************************************)

\* the favorites list of the configuration file at start
InitialFavorites == { {}, { FileA2[Len(FileA2)] } }

\* texts typed into the search box: "" and " ÉBANO  tr"
SearchTexts ==
    { << >>,
      << " ", "É", "B", "A", "N", "O", " ", " ", "t", "r" >> }

\* the chips the user clicks: trap, kick, loop
TagChoices == { << "t", "r", "a", "p" >>, << "k", "i", "c", "k" >>, << "l", "o", "o", "p" >> }

\* src/app.py:562-563, the labels of the key buttons
KeyLabels ==
    { << "D", "b" >>, << "E", "b" >>, << "G", "b" >>, << "A", "b" >>, << "B", "b" >>,
      << "C", "#" >>, << "D", "#" >>, << "F", "#" >>, << "G", "#" >>, << "A", "#" >>,
      << "C" >>, << "D" >>, << "E" >>, << "F" >>, << "G" >>, << "A" >>, << "B" >> }

\* the sets of checked key buttons that the user makes
KeyChoices == { {}, { << "C" >>, << "D", "b" >> } }

\* src/app.py:602
Scales == { "Major", "Minor", "" }

\* src/app.py:726-730 and 720-724: the values TypeFilterPopover emits
TypeChoices == { Lower(Loop), Lower(Oneshot), << >> }

\* (min, max, exact) emitted by BPMFilterPopover: _clear (src/app.py:679),
\* _apply on the Exact tab (683) and on the Range tab (686-687)
BpmChoices == { << 1, 300, 0 >>, << 0, 0, 120 >>, << 100, 400, 0 >> }

(***************************************************************************)
(* _apply_filters and _refresh_tag_suggestions as functions of the state   *)
(***************************************************************************)

\* src/app.py:1209-1235, the value of visible for one sample
RowPasses(s, tokens, include, exclude, ftype, keys, mn, mx, exact) ==
    /\ TextCriterion(s, tokens)
    /\ TagCriterion(s, include, exclude)
    /\ TypeCriterion(s, ftype)
    /\ KeyCriterion(s, keys)
    /\ BpmCriterion(s, mn, mx, exact)

\* src/app.py:1206-1242, visible_rows after the sort; flags[i] is visible of row i
SortedVisibleRows(flags, smp, favs) ==
    LET n == Len(smp)
        inScanOrder == SelectSeq([i \in 1..n |-> i], LAMBDA i : flags[i])
    IN  SortRows(inScanOrder, smp, favs)

\* src/app.py:1243
HiddenRows(flags) ==
    SelectSeq([i \in 1..Len(flags) |-> i], LAMBDA i : ~flags[i])

\* row.isVisible(): the row was not hidden and the window is shown
isVisible(row, ph) == ph = "running" /\ row.visible

\* src/app.py:1259-1268, the new state of the tag row
RefreshedTagRow(rws, smp, ph, include, exclude) ==
    [tags |-> setData(TagCounts(smp, [i \in 1..Len(rws) |-> isVisible(rws[i], ph)] \o << >>,
                                include, exclude),
                      include \cup exclude),
     ignored |-> include \cup exclude]

(***************************************************************************)
(* Construction, src/app.py:925-976                                        *)
(***************************************************************************)

\* The state in which __init__ leaves the window: the filter fields of lines
\* 939-949, the favorites of the configuration, the rows and samples of
\* _load_samples, the flags and the layout order of the _apply_filters call
\* of line 955, the suggestions of line 956 (no row is visible before the
\* window is shown), and the fields assigned after these calls.
WindowOpenedOn(dir) ==
    /\ phase = "constructed"
    /\ samples_dir = dir
    /\ favorites \in InitialFavorites
    /\ filter_keys = {}
    /\ filter_scale = ""
    /\ filter_type = << >>
    /\ filter_bpm_min = 1
    /\ filter_bpm_max = 300
    /\ filter_bpm_exact = 0
    /\ include_tags = {}
    /\ exclude_tags = {}
    /\ search_tokens = << >>
    /\ search_text = << >>
    /\ samples = LoadedSamples(samples_dir)
    /\ LET flags == [i \in 1..Len(samples) |->
                        RowPasses(samples[i], search_tokens, include_tags, exclude_tags,
                                  filter_type, filter_keys, filter_bpm_min, filter_bpm_max,
                                  filter_bpm_exact)] \o << >>
           rows0 == LoadedRows(samples, favorites)
       IN  /\ rows = [i \in 1..Len(rows0) |-> [rows0[i] EXCEPT !.visible = flags[i]]]
           /\ listLayout = SortedVisibleRows(flags, samples, favorites) \o HiddenRows(flags)
    /\ tagRow = RefreshedTagRow(rows, samples, phase, include_tags, exclude_tags)
    /\ _current_row = 0
    /\ _ordered_visible_rows = << >>
    /\ player = [state |-> "Stopped", source |-> << >>]
    /\ popover = FALSE
    /\ filterPopovers = [p \in FilterPopovers |-> FALSE]
    /\ _active_popover = "None"
    /\ _active_button = "None"
    /\ assigned = Attributes

\* src/app.py:1457-1472: the folder given to MainWindow is A
WindowInit == WindowOpenedOn(FolderA)

\* no call of parse_from_path other than those of the scan
NoCall == [path |-> << >>, root |-> << >>, done |-> FALSE, raised |-> FALSE, meta |-> << >>]

\* no call of _clean_title_remove_trailing_number other than those of the scan
NoCleanCall == [title |-> << >>, done |-> FALSE, result |-> << >>]

Init == WindowInit /\ parse_call = NoCall /\ clean_call = NoCleanCall

(***************************************************************************)
(* Handlers                                                                *)
(***************************************************************************)

\* the current row is kept when it drops out of the visible rows
_apply_filters_keep(rows0, curInRows) ==
    \E flags \in { [i \in 1..Len(rows0) |->
                      RowPasses(samples'[i], search_tokens', include_tags', exclude_tags',
                                filter_type', filter_keys', filter_bpm_min',
                                filter_bpm_max', filter_bpm_exact')] \o << >> } :
    \E visible_rows \in { SortedVisibleRows(flags, samples', favorites') } :
        /\ rows' = [i \in 1..Len(rows0) |-> [rows0[i] EXCEPT !.visible = flags[i]]]
        /\ listLayout' = visible_rows \o HiddenRows(flags)
        /\ _ordered_visible_rows' = visible_rows
        /\ UNCHANGED << _current_row, player, popover >>

\* src/app.py:1205-1257. rows0 is self.rows as the caller left it and
\* curInRows tells whether the row _current_row refers to is one of them; the
\* filter fields, samples and favorites are read after the caller's updates.
\* flags[i] is visible of row i (1207-1238); visible_rows is the sorted list
\* (1240-1242).
_apply_filters(rows0, curInRows) ==
    \E flags \in { [i \in 1..Len(rows0) |->
                      RowPasses(samples'[i], search_tokens', include_tags', exclude_tags',
                                filter_type', filter_keys', filter_bpm_min',
                                filter_bpm_max', filter_bpm_exact')] \o << >> } :
    \E visible_rows \in { SortedVisibleRows(flags, samples', favorites') } :
        /\ rows' = [i \in 1..Len(rows0) |->
                      [rows0[i] EXCEPT !.visible = flags[i],
                                       !.isPlaying = IF /\ _current_row = i
                                                        /\ curInRows
                                                        /\ ~flags[i]
                                                     THEN FALSE ELSE @]]
        /\ listLayout' = visible_rows \o HiddenRows(flags)
        /\ _ordered_visible_rows' = visible_rows
        /\ IF _current_row # 0 /\ ~(curInRows /\ flags[_current_row])
           THEN /\ _current_row' = 0
                /\ player' = [player EXCEPT !.state = "Stopped"]
                /\ popover' = FALSE
           ELSE UNCHANGED << _current_row, player, popover >>

(***************************************************************************)
(* __init__ statement by statement, src/app.py:925-955                     *)
(***************************************************************************)

\* the favorites lists the configuration file may hold
ConfigFavorites ==
    SUBSET { FileA1[Len(FileA1)], FileA2[Len(FileA2)], FileA3[Len(FileA3)],
             FileA4[Len(FileA4)] }

\* src/app.py:925-928: the object exists and samples_dir is assigned; phase
\* names the statement of __init__ that runs next. An attribute that is not
\* in assigned does not exist; its variable holds a value of its type.
CtorInit ==
    /\ phase = "audio"
    /\ samples_dir \in Folders \cup { FolderC }
    /\ assigned = { "samples_dir" }
    /\ favorites = {}
    /\ filter_keys = {}
    /\ filter_scale = ""
    /\ filter_type = << >>
    /\ filter_bpm_min = 0
    /\ filter_bpm_max = 0
    /\ filter_bpm_exact = 0
    /\ include_tags = {}
    /\ exclude_tags = {}
    /\ search_tokens = << >>
    /\ search_text = << >>
    /\ samples = << >>
    /\ rows = << >>
    /\ listLayout = << >>
    /\ tagRow = [tags |-> << >>, ignored |-> {}]
    /\ _current_row = 0
    /\ _ordered_visible_rows = << >>
    /\ player = [state |-> "Stopped", source |-> << >>]
    /\ popover = FALSE
    /\ filterPopovers = [p \in FilterPopovers |-> FALSE]
    /\ _active_popover = "None"
    /\ _active_button = "None"
    /\ parse_call = NoCall
    /\ clean_call = NoCleanCall

\* src/app.py:930-936
CtorAudio ==
    /\ phase = "audio"
    /\ player' = [state |-> "Stopped", source |-> << >>]
    /\ assigned' = assigned \cup { "player" }
    /\ phase' = "filter_fields"
    /\ UNCHANGED << clean_call, popoverVars, parse_call, samples_dir, samples, rows, favorites,
                    filterVars, listLayout, _ordered_visible_rows, _current_row, popover,
                    tagRow >>

\* src/app.py:939-949
CtorFilterFields ==
    /\ phase = "filter_fields"
    /\ filter_keys' = {}
    /\ filter_scale' = ""
    /\ filter_type' = << >>
    /\ filter_bpm_min' = 1
    /\ filter_bpm_max' = 300
    /\ filter_bpm_exact' = 0
    /\ include_tags' = {}
    /\ exclude_tags' = {}
    /\ search_tokens' = << >>
    /\ assigned' = assigned \cup { "filter_keys", "filter_scale", "filter_type",
                                   "filter_bpm_min", "filter_bpm_max", "filter_bpm_exact",
                                   "include_tags", "exclude_tags", "search_tokens" }
    /\ phase' = "favorites"
    /\ UNCHANGED << clean_call, popoverVars, parse_call, samples_dir, samples, rows, favorites,
                    search_text, listLayout, _ordered_visible_rows, _current_row, player,
                    popover, tagRow >>

\* src/app.py:951
CtorFavorites ==
    /\ phase = "favorites"
    /\ favorites' \in ConfigFavorites
    /\ assigned' = assigned \cup { "favorites" }
    /\ phase' = "_build_ui"
    /\ UNCHANGED << clean_call, popoverVars, parse_call, samples_dir, samples, rows, filterVars,
                    listLayout, _ordered_visible_rows, _current_row, player, popover,
                    tagRow >>

\* src/app.py:953 and 979-1042: the search box, the tag row and the list
\* layout are made, empty
Ctor_build_ui ==
    /\ phase = "_build_ui"
    /\ listLayout' = << >>
    /\ tagRow' = [tags |-> << >>, ignored |-> {}]
    /\ assigned' = assigned \cup { "search", "tagRow", "listLayout" }
    /\ phase' = "_load_samples"
    /\ UNCHANGED << clean_call, popoverVars, parse_call, samples_dir, samples, rows, favorites,
                    filterVars, _ordered_visible_rows, _current_row, player, popover >>

\* src/app.py:954 and 1096-1126: the rows are added to the layout as scanned
Ctor_load_samples ==
    /\ phase = "_load_samples"
    /\ { "samples_dir", "favorites", "listLayout" } \subseteq assigned
    /\ samples' = LoadedSamples(samples_dir)
    /\ rows' = LoadedRows(samples', favorites)
    /\ listLayout' = [i \in 1..Len(samples') |-> i] \o << >>
    /\ assigned' = assigned \cup { "samples", "rows" }
    /\ phase' = "_apply_filters"
    /\ UNCHANGED << clean_call, popoverVars, parse_call, samples_dir, favorites, filterVars,
                    _ordered_visible_rows, _current_row, player, popover, tagRow >>

\* src/app.py:955 and 1205-1257: _apply_filters orders the list and assigns
\* _ordered_visible_rows (1247); then line 1253 reads self._current_row,
\* which raises AttributeError when that attribute does not exist, and
\* __init__ ends there.
Ctor_apply_filters ==
    /\ phase = "_apply_filters"
    /\ UNCHANGED << clean_call, popoverVars, parse_call, samples_dir, samples, favorites,
                    filterVars, tagRow >>
    /\ _apply_filters(rows, FALSE)
    /\ assigned' = assigned \cup { "_ordered_visible_rows" }
    /\ phase' = IF "_current_row" \in assigned THEN "_refresh_tag_suggestions" ELSE "raised"

CtorNext ==
    \/ CtorAudio
    \/ CtorFilterFields
    \/ CtorFavorites
    \/ Ctor_build_ui
    \/ Ctor_load_samples
    \/ Ctor_apply_filters

CtorSpec == CtorInit /\ [][CtorNext]_vars

(***************************************************************************)
(* Handlers, continued                                                     *)
(***************************************************************************)

\* src/app.py:1259-1268, called after _apply_filters
_refresh_tag_suggestions ==
    \E refreshed \in { RefreshedTagRow(rows', samples', phase', include_tags', exclude_tags') } :
        tagRow' = refreshed

\* src/app.py:1474-1479 and 957: the window is shown, the event loop starts
\* and runs the timer callback _refresh_tag_suggestions
Start ==
    /\ phase = "constructed"
    /\ phase' = "running"
    /\ UNCHANGED << clean_call, assigned, popoverVars,
                    parse_call, samples_dir, samples, rows, favorites, filterVars,
                    listLayout, _ordered_visible_rows, _current_row, player, popover >>
    /\ _refresh_tag_suggestions

\* the tags of the chips the user can click: the chips of the visible rows
\* (src/app.py:766-773) and the suggestions of the tag row (897-905, 916-920)
ClickableTags ==
    UNION { Range(samples[i].genres) \cup Range(samples[i].generals)
              \cup Range(samples[i].specifics)
              \cup (IF samples[i].key # << >> THEN { samples[i].key } ELSE {})
            : i \in { j \in 1..Len(rows) : isVisible(rows[j], phase) } }
      \cup { tagRow.tags[k][1] : k \in 1..Len(tagRow.tags) }

\* src/app.py:1019 and 1138-1140: textChanged is emitted when the text of the
\* search box changes
_on_search_text(text) ==
    /\ phase = "running"
    /\ text # search_text
    /\ search_text' = text
    /\ search_tokens' = SearchTokens(text)
    /\ UNCHANGED << clean_call, assigned, popoverVars,
                    parse_call, phase, samples_dir, samples, favorites, filter_keys, filter_scale,
                    filter_type, filter_bpm_min, filter_bpm_max, filter_bpm_exact,
                    include_tags, exclude_tags >>
    /\ _apply_filters(rows, TRUE)
    /\ _refresh_tag_suggestions

\* the suggestions are not refreshed
_include_tag_stale(tag) ==
    /\ phase = "running"
    /\ exclude_tags' = exclude_tags \ { tag }
    /\ include_tags' = include_tags \cup { tag }
    /\ UNCHANGED << clean_call, assigned, popoverVars,
                    parse_call, phase, samples_dir, samples, favorites, filter_keys, filter_scale,
                    filter_type, filter_bpm_min, filter_bpm_max, filter_bpm_exact,
                    search_tokens, search_text, tagRow >>
    /\ _apply_filters(rows, TRUE)

\* src/app.py:1142-1144
_include_tag(tag) ==
    /\ phase = "running"
    /\ exclude_tags' = exclude_tags \ { tag }
    /\ include_tags' = include_tags \cup { tag }
    /\ UNCHANGED << clean_call, assigned, popoverVars,
                    parse_call, phase, samples_dir, samples, favorites, filter_keys, filter_scale,
                    filter_type, filter_bpm_min, filter_bpm_max, filter_bpm_exact,
                    search_tokens, search_text >>
    /\ _apply_filters(rows, TRUE)
    /\ _refresh_tag_suggestions

\* the tag stays in include_tags
_exclude_tag_keep(tag) ==
    /\ phase = "running"
    /\ include_tags' = include_tags
    /\ exclude_tags' = exclude_tags \cup { tag }
    /\ UNCHANGED << clean_call, assigned, popoverVars,
                    parse_call, phase, samples_dir, samples, favorites, filter_keys, filter_scale,
                    filter_type, filter_bpm_min, filter_bpm_max, filter_bpm_exact,
                    search_tokens, search_text >>
    /\ _apply_filters(rows, TRUE)
    /\ _refresh_tag_suggestions

\* src/app.py:1146-1148
_exclude_tag(tag) ==
    /\ phase = "running"
    /\ include_tags' = include_tags \ { tag }
    /\ exclude_tags' = exclude_tags \cup { tag }
    /\ UNCHANGED << clean_call, assigned, popoverVars,
                    parse_call, phase, samples_dir, samples, favorites, filter_keys, filter_scale,
                    filter_type, filter_bpm_min, filter_bpm_max, filter_bpm_exact,
                    search_tokens, search_text >>
    /\ _apply_filters(rows, TRUE)
    /\ _refresh_tag_suggestions

\* src/app.py:1150-1152
_remove_tag(tag) ==
    /\ phase = "running"
    /\ include_tags' = include_tags \ { tag }
    /\ exclude_tags' = exclude_tags \ { tag }
    /\ UNCHANGED << clean_call, assigned, popoverVars,
                    parse_call, phase, samples_dir, samples, favorites, filter_keys, filter_scale,
                    filter_type, filter_bpm_min, filter_bpm_max, filter_bpm_exact,
                    search_tokens, search_text >>
    /\ _apply_filters(rows, TRUE)
    /\ _refresh_tag_suggestions

\* src/app.py:1165-1170
_on_key_filter_changed(keys, scale) ==
    /\ phase = "running"
    /\ filter_keys' = keys
    /\ filter_scale' = scale
    /\ UNCHANGED << clean_call, assigned,
                    parse_call, phase, samples_dir, samples, favorites, filter_type, filter_bpm_min,
                    filter_bpm_max, filter_bpm_exact, include_tags, exclude_tags,
                    search_tokens, search_text, tagRow >>
    /\ _apply_filters(rows, TRUE)

\* src/app.py:1172-1184
_on_bpm_filter_changed(mn, mx, exact) ==
    /\ phase = "running"
    /\ IF exact # 0
       THEN /\ filter_bpm_exact' = exact
            /\ filter_bpm_min' = 1
            /\ filter_bpm_max' = 400
       ELSE /\ filter_bpm_exact' = 0
            /\ filter_bpm_min' = mn
            /\ filter_bpm_max' = mx
    /\ UNCHANGED << clean_call, assigned,
                    parse_call, phase, samples_dir, samples, favorites, filter_keys, filter_scale,
                    filter_type, include_tags, exclude_tags, search_tokens, search_text,
                    tagRow >>
    /\ _apply_filters(rows, TRUE)

\* src/app.py:1186-1193
_on_type_filter_changed(t) ==
    /\ phase = "running"
    /\ filter_type' = t
    /\ UNCHANGED << clean_call, assigned,
                    parse_call, phase, samples_dir, samples, favorites, filter_keys, filter_scale,
                    filter_bpm_min, filter_bpm_max, filter_bpm_exact, include_tags,
                    exclude_tags, search_tokens, search_text, tagRow >>
    /\ _apply_filters(rows, TRUE)

\* src/app.py:845-849 and 1129-1135: a click on the star of row i
_toggle_favorite(i) ==
    LET name    == samples[i].filename
        starred == [rows EXCEPT ![i].isFav = ~@]
    IN  /\ phase = "running"
        /\ favorites' = IF starred[i].isFav THEN favorites \cup { name }
                        ELSE favorites \ { name }
        /\ UNCHANGED << clean_call, assigned, popoverVars,
                        parse_call, phase, samples_dir, samples, filterVars, tagRow >>
        /\ _apply_filters(starred, TRUE)

\* the records of the new folder are appended to the catalog
change_folder_merge(dir) ==
    /\ phase = "running"
    /\ samples_dir' = dir
    /\ samples' = samples \o LoadedSamples(dir)
    /\ UNCHANGED << clean_call, assigned, popoverVars,
                    parse_call, phase, favorites, filterVars >>
    /\ _apply_filters(LoadedRows(samples', favorites), FALSE)
    /\ _refresh_tag_suggestions

\* src/app.py:1400-1416, the dialog accepted with folder dir
change_folder(dir) ==
    /\ phase = "running"
    /\ samples_dir' = dir
    /\ samples' = LoadedSamples(dir)
    /\ UNCHANGED << clean_call, assigned, popoverVars,
                    parse_call, phase, favorites, filterVars >>
    /\ _apply_filters(LoadedRows(samples', favorites), FALSE)
    /\ _refresh_tag_suggestions

UserEvent ==
    \/ \E text \in SearchTexts : _on_search_text(text)
    \/ \E tag \in ClickableTags \cap TagChoices :
          /\ Cardinality(include_tags \cup exclude_tags \cup { tag }) <= MaxActiveTags
          /\ (_include_tag(tag) \/ _exclude_tag(tag))
    \/ \E tag \in include_tags \cup exclude_tags : _remove_tag(tag)
    \/ /\ \E keys \in KeyChoices, scale \in Scales : _on_key_filter_changed(keys, scale)
       /\ UNCHANGED popoverVars
    \/ /\ \E b \in BpmChoices : _on_bpm_filter_changed(b[1], b[2], b[3])
       /\ UNCHANGED popoverVars
    \/ /\ \E t \in TypeChoices : _on_type_filter_changed(t)
       /\ UNCHANGED popoverVars
    \/ \E i \in { j \in 1..Len(rows) : isVisible(rows[j], phase) } : _toggle_favorite(i)
    \/ \E dir \in Folders : change_folder(dir)

Next == Start \/ UserEvent

Spec == Init /\ [][Next]_vars

(***************************************************************************)
(* Playback and navigation, src/app.py:1270-1342                           *)
(***************************************************************************)

\* rows.index(x) for a list that holds x
Index(seq, x) == CHOOSE k \in 1..Len(seq) : seq[k] = x

\* src/app.py:1281-1303. signalled tells whether play() (1290) delivers
\* playbackStateChanged to _on_state (1328-1333) before it returns: _on_state
\* then marks the row that _current_row still refers to, after line 1285
\* has unmarked it.
_play_row(row, signalled) ==
    /\ rows' = [i \in 1..Len(rows) |->
                  [rows[i] EXCEPT !.isPlaying =
                      IF i = row THEN TRUE
                      ELSE IF i = _current_row THEN signalled
                      ELSE @]]
    /\ player' = [state |-> "Playing", source |-> samples[row].path]
    /\ _current_row' = row
    /\ popover' = TRUE
    /\ UNCHANGED << clean_call, assigned, popoverVars,
                    parse_call, phase, samples_dir, samples, favorites, filterVars,
                    listLayout, _ordered_visible_rows, tagRow >>

\* src/app.py:1305-1315 and 1121: a click on the play button of row
_toggle_play_row(row) ==
    /\ phase = "running"
    /\ IF _current_row = row
       THEN /\ IF player.state = "Playing"
               THEN /\ player' = [player EXCEPT !.state = "Paused"]
                    /\ rows' = [rows EXCEPT ![row].isPlaying = FALSE]
               ELSE /\ player' = [player EXCEPT !.state = "Playing"]
                    /\ rows' = [rows EXCEPT ![row].isPlaying = TRUE]
            /\ popover' = TRUE
            /\ UNCHANGED << clean_call, assigned, popoverVars,
                            parse_call, phase, samples_dir, samples, favorites, filterVars,
                            listLayout, _ordered_visible_rows, _current_row, tagRow >>
       ELSE \E signalled \in BOOLEAN : _play_row(row, signalled)

\* src/app.py:1318, the list _move_selection walks
SelectionRows ==
    IF _ordered_visible_rows # << >> THEN _ordered_visible_rows
    ELSE SelectSeq([i \in 1..Len(rows) |-> i], LAMBDA i : isVisible(rows[i], phase))

\* a selection that goes round from the last row to the first and back
SelectionTarget_wrap(rws, delta) ==
    IF _current_row = 0 \/ _current_row \notin Range(rws)
    THEN IF delta >= 0 THEN rws[1] ELSE rws[Len(rws)]
    ELSE rws[((Index(rws, _current_row) + delta - 1) % Len(rws)) + 1]

\* src/app.py:1320-1325
SelectionTarget(rws, delta) ==
    IF _current_row = 0 \/ _current_row \notin Range(rws)
    THEN IF delta >= 0 THEN rws[1] ELSE rws[Len(rws)]
    ELSE LET idx  == Index(rws, _current_row) + delta
             low  == IF idx < Len(rws) THEN idx ELSE Len(rws)
         IN  rws[IF low > 1 THEN low ELSE 1]

\* src/app.py:1317-1326 and 1352-1355: the Down (+1) and Up (-1) keys
_move_selection(delta) ==
    /\ phase = "running"
    /\ SelectionRows # << >>
    /\ \E target \in { SelectionTarget(SelectionRows, delta) } :
       \E signalled \in BOOLEAN : _play_row(target, signalled)

\* src/app.py:1338-1342: the player reaches the end of the file, its state
\* becomes Stopped and mediaStatusChanged(EndOfMedia) reaches _on_status
_on_status ==
    /\ phase = "running"
    /\ player.state = "Playing"
    /\ player' = [player EXCEPT !.state = "Stopped"]
    /\ rows' = IF _current_row # 0 THEN [rows EXCEPT ![_current_row].isPlaying = FALSE]
               ELSE rows
    /\ UNCHANGED << clean_call, assigned, popoverVars,
                    parse_call, phase, samples_dir, samples, favorites, filterVars,
                    listLayout, _ordered_visible_rows, _current_row, popover, tagRow >>

\* the tag the user clicks while listening
PlayTagChoices == { Lower(Loop) }

\* the BPM settings the user makes while listening
PlayBpmChoices == { << 1, 300, 0 >>, << 100, 400, 0 >> }

\* The events of a listening session: playback and navigation, each kind of
\* filter change and the favourite toggle, and the folder change.
PlaybackEvent ==
    \/ \E i \in { j \in 1..Len(rows) : isVisible(rows[j], phase) } : _toggle_play_row(i)
    \/ \E delta \in { -1, 1 } : _move_selection(delta)
    \/ _on_status

FilterEvent ==
    \/ \E text \in SearchTexts : _on_search_text(text)
    \/ \E tag \in ClickableTags \cap PlayTagChoices : _include_tag(tag) \/ _exclude_tag(tag)
    \/ \E tag \in include_tags \cup exclude_tags : _remove_tag(tag)
    \/ /\ \E keys \in KeyChoices : _on_key_filter_changed(keys, "")
       /\ UNCHANGED popoverVars
    \/ /\ \E b \in PlayBpmChoices : _on_bpm_filter_changed(b[1], b[2], b[3])
       /\ UNCHANGED popoverVars
    \/ /\ \E t \in TypeChoices : _on_type_filter_changed(t)
       /\ UNCHANGED popoverVars
    \/ \E i \in { j \in 1..Len(rows) : isVisible(rows[j], phase) } : _toggle_favorite(i)

FolderEvent == \E dir \in Folders : change_folder(dir)

PlayNext == Start \/ PlaybackEvent \/ FilterEvent \/ FolderEvent

PlaySpec == Init /\ [][PlayNext]_vars

(***************************************************************************)
(* Filter popovers, src/app.py:1062-1078, 1373-1389                        *)
(***************************************************************************)

\* all the state but that of the filter popovers
mainVars == << clean_call, assigned, parse_call, phase, samples_dir, samples, rows,
              favorites, filterVars, listLayout, _ordered_visible_rows, _current_row,
              player, popover, tagRow >>

\* src/app.py:1010-1012
Button(p) ==
    IF p = "keyPop" THEN "btnKey" ELSE IF p = "bpmPop" THEN "btnBPM" ELSE "btnType"

\* the popover that is open stays open when another one is shown
_toggle_popover_stack(p, button) ==
    /\ phase = "running"
    /\ IF _active_popover = p /\ filterPopovers[p]
       THEN /\ filterPopovers' = [filterPopovers EXCEPT ![p] = FALSE]
            /\ _active_popover' = "None"
            /\ _active_button' = "None"
       ELSE /\ filterPopovers' = [filterPopovers EXCEPT ![p] = TRUE]
            /\ _active_popover' = p
            /\ _active_button' = button
    /\ UNCHANGED mainVars

\* src/app.py:1062-1072: a click on a filter button
_toggle_popover(p, button) ==
    /\ phase = "running"
    /\ IF _active_popover = p /\ filterPopovers[p]
       THEN /\ filterPopovers' = [filterPopovers EXCEPT ![p] = FALSE]
            /\ _active_popover' = "None"
            /\ _active_button' = "None"
       ELSE /\ filterPopovers' = [q \in FilterPopovers |->
                                    IF q = p THEN TRUE
                                    ELSE IF q = _active_popover THEN FALSE
                                    ELSE filterPopovers[q]]
            /\ _active_popover' = p
            /\ _active_button' = button
    /\ UNCHANGED mainVars

\* src/app.py:1074-1078
_close_active_popover ==
    /\ phase = "running"
    /\ filterPopovers' = [q \in FilterPopovers |->
                            IF q = _active_popover THEN FALSE ELSE filterPopovers[q]]
    /\ _active_popover' = "None"
    /\ _active_button' = "None"
    /\ UNCHANGED mainVars

\* QWidget.hide() of popover p, called by the popover itself
Hide(p) ==
    /\ filterPopovers' = [filterPopovers EXCEPT ![p] = FALSE]
    /\ UNCHANGED << _active_popover, _active_button >>

\* The events of the filter buttons and popovers. A popover is used while
\* it is visible; its changed signal runs the slot of the window.
PopoverEvent ==
    \* a filter button is clicked (1010-1012)
    \/ \E p \in FilterPopovers : _toggle_popover(p, Button(p))
    \* the Escape key (1373-1375)
    \/ _close_active_popover
    \* a click outside the open popover and its button (1377-1388)
    \/ /\ _active_popover # "None"
       /\ filterPopovers[_active_popover]
       /\ _close_active_popover
    \* the Close button of the Key and Type popovers (589, 716)
    \/ \E p \in { "keyPop", "typePop" } :
          /\ phase = "running"
          /\ filterPopovers[p]
          /\ Hide(p)
          /\ UNCHANGED mainVars
    \* a key or scale button, or Clear, of the Key popover (596-612)
    \/ /\ filterPopovers["keyPop"]
       /\ \E keys \in KeyChoices, scale \in Scales : _on_key_filter_changed(keys, scale)
       /\ UNCHANGED popoverVars
    \* Save of the BPM popover (681-688 with live false)
    \/ /\ filterPopovers["bpmPop"]
       /\ \E b \in BpmChoices \ { << 1, 300, 0 >> } : _on_bpm_filter_changed(b[1], b[2], b[3])
       /\ Hide("bpmPop")
    \* Clear of the BPM popover (677-679)
    \/ /\ filterPopovers["bpmPop"]
       /\ _on_bpm_filter_changed(1, 300, 0)
       /\ UNCHANGED popoverVars
    \* a radio button of the Type popover (726-730)
    \/ /\ filterPopovers["typePop"]
       /\ \E t \in TypeChoices \ { << >>, filter_type } : _on_type_filter_changed(t)
       /\ Hide("typePop")
    \* Clear of the Type popover (720-724)
    \/ /\ filterPopovers["typePop"]
       /\ _on_type_filter_changed(<< >>)
       /\ UNCHANGED popoverVars

PopoverNext == Start \/ PopoverEvent

PopoverSpec == Init /\ [][PopoverNext]_vars

(***************************************************************************)
(* Favourites in a folder with a repeated file name                        *)
(***************************************************************************)

StarInit == WindowOpenedOn(FolderC) /\ parse_call = NoCall /\ clean_call = NoCleanCall

\* stars, the Type and BPM filters, and the folder chosen again
StarEvent ==
    \/ \E i \in { j \in 1..Len(rows) : isVisible(rows[j], phase) } : _toggle_favorite(i)
    \/ /\ \E t \in TypeChoices : _on_type_filter_changed(t)
       /\ UNCHANGED popoverVars
    \/ /\ \E b \in BpmChoices : _on_bpm_filter_changed(b[1], b[2], b[3])
       /\ UNCHANGED popoverVars
    \/ change_folder(FolderC)

StarNext == Start \/ StarEvent

StarSpec == StarInit /\ [][StarNext]_vars

(***************************************************************************)
(* parse_from_path called on its own, src/app.py:72-113                    *)
(***************************************************************************)

\* kick_X_808 mafia 1_KEY_NO_BPM_NO.wav
NameExample ==
    << "k", "i", "c", "k", "_", "X", "_", "8", "0", "8", " ", "m", "a", "f", "i", "a", " ",
       "1", "_", "K", "E", "Y", "_", "N", "O", "_", "B", "P", "M", "_", "N", "O", ".", "w",
       "a", "v" >>

\* ONESHOT_GENERO_house_X_drums_X_clap_snare_X_JAUS_KEY_NO_BPM_120.wav
NameLegacy ==
    << "O", "N", "E", "S", "H", "O", "T", "_", "G", "E", "N", "E", "R", "O", "_", "h", "o",
       "u", "s", "e", "_", "X", "_", "d", "r", "u", "m", "s", "_", "X", "_", "c", "l", "a",
       "p", "_", "s", "n", "a", "r", "e", "_", "X", "_", "J", "A", "U", "S", "_", "K", "E",
       "Y", "_", "N", "O", "_", "B", "P", "M", "_", "1", "2", "0", ".", "w", "a", "v" >>

\* the file names of the calls
ParseNames ==
    { NameExample, NameLegacy,
      \* kick_kick_X_Alto_KEY_C_BPM_120.wav
      << "k", "i", "c", "k", "_", "k", "i", "c", "k", "_", "X", "_", "A", "l", "t", "o",
         "_", "K", "E", "Y", "_", "C", "_", "B", "P", "M", "_", "1", "2", "0", ".", "w",
         "a", "v" >>,
      \* kick_hard_X_bass_X_mafia_KEY_F#_BPM_90.wav
      << "k", "i", "c", "k", "_", "h", "a", "r", "d", "_", "X", "_", "b", "a", "s", "s",
         "_", "X", "_", "m", "a", "f", "i", "a", "_", "K", "E", "Y", "_", "F", "#", "_",
         "B", "P", "M", "_", "9", "0", ".", "w", "a", "v" >>,
      \* snare_X_top_key_no_bpm_no.aiff
      << "s", "n", "a", "r", "e", "_", "X", "_", "t", "o", "p", "_", "k", "e", "y", "_",
         "n", "o", "_", "b", "p", "m", "_", "n", "o", ".", "a", "i", "f", "f" >>,
      \* pad_X_Name - 02_KEY__BPM_abc.wav
      << "p", "a", "d", "_", "X", "_", "N", "a", "m", "e", " ", "-", " ", "0", "2", "_",
         "K", "E", "Y", "_", "_", "B", "P", "M", "_", "a", "b", "c", ".", "w", "a", "v" >>,
      \* hat_X_air_KEY_Db_BPM_².wav
      << "h", "a", "t", "_", "X", "_", "a", "i", "r", "_", "K", "E", "Y", "_", "D", "b",
         "_", "B", "P", "M", "_", "²", ".", "w", "a", "v" >>,
      \* loop_trap_X_keys_X_pad_X_Ébano_X_2_KEY_am_BPM_0.wav
      << "l", "o", "o", "p", "_", "t", "r", "a", "p", "_", "X", "_", "k", "e", "y", "s",
         "_", "X", "_", "p", "a", "d", "_", "X", "_", "É", "b", "a", "n", "o", "_", "X",
         "_", "2", "_", "K", "E", "Y", "_", "a", "m", "_", "B", "P", "M", "_", "0", ".",
         "w", "a", "v" >>,
      \* notes.wav
      << "n", "o", "t", "e", "s", ".", "w", "a", "v" >>,
      \* house_house_X_drums_X_clap_clap.wav
      << "h", "o", "u", "s", "e", "_", "h", "o", "u", "s", "e", "_", "X", "_", "d", "r",
         "u", "m", "s", "_", "X", "_", "c", "l", "a", "p", "_", "c", "l", "a", "p", ".",
         "w", "a", "v" >>,
      \* kick_X_KEY_C_BPM_120.wav
      << "k", "i", "c", "k", "_", "X", "_", "K", "E", "Y", "_", "C", "_", "B", "P", "M",
         "_", "1", "2", "0", ".", "w", "a", "v" >>,
      \* kick_X_808_BPM_ 95 _KEY_ g .wav
      << "k", "i", "c", "k", "_", "X", "_", "8", "0", "8", "_", "B", "P", "M", "_", " ",
         "9", "5", " ", "_", "K", "E", "Y", "_", " ", "g", " ", ".", "w", "a", "v" >> }

\* the folders between the root and the file: none, ONESHOT, Loop/trap,
\* LOOP/trap/drums, oneshot/trap/drums/kick, ONESHOT/trap/drums/kick/hard,
\* misc/trap/drums
ParseDirs ==
    { <<  >>,
      << << "O", "N", "E", "S", "H", "O", "T" >> >>,
      << << "L", "o", "o", "p" >>, << "t", "r", "a", "p" >> >>,
      << << "L", "O", "O", "P" >>, << "t", "r", "a", "p" >>, << "d", "r", "u", "m", "s" >> >>,
      << << "o", "n", "e", "s", "h", "o", "t" >>, << "t", "r", "a", "p" >>, << "d", "r", "u", "m", "s" >>, << "k", "i", "c", "k" >> >>,
      << << "O", "N", "E", "S", "H", "O", "T" >>, << "t", "r", "a", "p" >>, << "d", "r", "u", "m", "s" >>, << "k", "i", "c", "k" >>, << "h", "a", "r", "d" >> >>,
      << << "m", "i", "s", "c" >>, << "t", "r", "a", "p" >>, << "d", "r", "u", "m", "s" >> >> }

\* pad_X_Alto_KEY_<label>_BPM_90.wav
KeyName(label) ==
    << "p", "a", "d", "_", "X", "_", "A", "l", "t", "o", "_", "K", "E", "Y", "_" >>
        \o label \o << "_", "B", "P", "M", "_", "9", "0", ".", "w", "a", "v" >>

\* a file name for each label of the key buttons
KeyNames == { KeyName(label) : label \in KeyLabels }

\* the root of the scan, R
ParseRoot == << << "R" >> >>

\* the (path, root) pairs of the calls: a file below R parsed with root R or
\* with a root Q that is no prefix of the path, and the root itself
ParseCalls ==
    { [path |-> ParseRoot \o dir \o << name >>, root |-> root,
       done |-> FALSE, raised |-> FALSE, meta |-> << >>]
      : dir \in ParseDirs, name \in ParseNames \cup KeyNames,
        root \in { ParseRoot, << << "Q" >> >> } }
    \cup { [path |-> ParseRoot, root |-> ParseRoot,
            done |-> FALSE, raised |-> FALSE, meta |-> << >>] }

windowVars == << phase, samples_dir, samples, rows, favorites, filterVars, listLayout,
                 _ordered_visible_rows, _current_row, player, popover, tagRow, assigned,
                 popoverVars >>

ParseInit == WindowInit /\ parse_call \in ParseCalls /\ clean_call = NoCleanCall

\* the call returns, or ends in an exception
ParseCall ==
    /\ ~parse_call.done
    /\ \E res \in { parse_from_path(parse_call.path, parse_call.root) } :
          parse_call' = [parse_call EXCEPT !.done = TRUE, !.raised = res.raised,
                                           !.meta = res.meta]
    /\ UNCHANGED << windowVars, clean_call >>

ParseSpec == ParseInit /\ [][ParseCall]_vars

(***************************************************************************)
(* _clean_title_remove_trailing_number called on its own, src/app.py:67-70 *)
(***************************************************************************)

\* the longest title made of the characters of TitleChars
MaxTitleLen == 4

\* a letter, a space, a hyphen and a digit
TitleChars == { "a", " ", "-", "1" }

\* 808 mafia 1, Name - 02, NoTrailingNumber, 808
TitleExamples ==
    { << "8", "0", "8", " ", "m", "a", "f", "i", "a", " ", "1" >>,
      << "N", "a", "m", "e", " ", "-", " ", "0", "2" >>,
      << "N", "o", "T", "r", "a", "i", "l", "i", "n", "g", "N", "u", "m", "b", "e", "r" >>,
      << "8", "0", "8" >> }

CleanCalls ==
    { [title |-> t, done |-> FALSE, result |-> << >>] :
        t \in TitleExamples \cup UNION { [1..n -> TitleChars] : n \in 0..MaxTitleLen } }

CleanInit == WindowInit /\ parse_call = NoCall /\ clean_call \in CleanCalls

\* the call returns
CleanCall ==
    /\ ~clean_call.done
    /\ \E t \in { _clean_title_remove_trailing_number(clean_call.title) } :
          clean_call' = [clean_call EXCEPT !.done = TRUE, !.result = t]
    /\ UNCHANGED << windowVars, parse_call >>

CleanSpec == CleanInit /\ [][CleanCall]_vars

(***************************************************************************)
(* Properties                                                              *)
(***************************************************************************)

\* the criteria of _apply_filters, each stated on the current state
TextPass(i) == \A k \in 1..Len(search_tokens) : IsSubstring(search_tokens[k], samples[i].haystack)

TagPass(i) ==
    /\ include_tags \subseteq samples[i].tagset
    /\ exclude_tags \cap samples[i].tagset = {}

TypePass(i) == filter_type = << >> \/ samples[i].sample_type = filter_type

KeyPass(i) ==
    filter_keys # {} => (samples[i].key # << >> /\ samples[i].key \in filter_keys)

BpmPass(i) ==
    IF filter_bpm_exact # 0 THEN samples[i].bpm = filter_bpm_exact
    ELSE samples[i].bpm = 0 \/ (filter_bpm_min <= samples[i].bpm /\ samples[i].bpm <= filter_bpm_max)

RowIds == 1..Len(rows)

\* C1: when the include and exclude sets are disjoint and the text, type, key
\* and BPM criteria do not exclude a record, the record is visible if and
\* only if every included tag and no excluded tag is in its tagset.
C1_TagFilter ==
    \A i \in RowIds :
        (include_tags \cap exclude_tags = {} /\ TextPass(i) /\ TypePass(i) /\ KeyPass(i) /\ BpmPass(i))
            => (rows[i].visible <=> TagPass(i))

\* Both sets are in use, one record is shown and another one is hidden by the
\* tags alone.
C1_Witness ==
    /\ include_tags # {}
    /\ exclude_tags # {}
    /\ \E i \in RowIds : rows[i].visible
    /\ \E i \in RowIds : TextPass(i) /\ TypePass(i) /\ KeyPass(i) /\ BpmPass(i) /\ ~rows[i].visible

\* C2: no tag is in both include_tags and exclude_tags.
C2_Disjoint == include_tags \cap exclude_tags = {}

\* Tags were added to both sides.
C2_Witness == include_tags # {} /\ exclude_tags # {}

\* no criterion is active: the filter fields of the initial FilterState, which
\* are also the fields after every criterion has been cleared
FilterInactive ==
    /\ search_tokens = << >>
    /\ include_tags = {}
    /\ exclude_tags = {}
    /\ filter_type = << >>
    /\ filter_keys = {}
    /\ filter_bpm_exact = 0
    /\ filter_bpm_min = 1
    /\ filter_bpm_max = 300

\* C3: when no criterion is active, every record of the catalog is visible.
C3_InactiveShowsAll == FilterInactive => \A i \in RowIds : rows[i].visible

\* C4: with an exact BPM a record passes iff its bpm is that value; with a
\* range and no exact value a record without bpm passes and a record with bpm
\* passes iff the bpm is in the range.
C4_BpmFilter ==
    \A i \in RowIds :
        (TextPass(i) /\ TagPass(i) /\ TypePass(i) /\ KeyPass(i))
            => (rows[i].visible <=>
                    IF filter_bpm_exact # 0 THEN samples[i].bpm = filter_bpm_exact
                    ELSE \/ samples[i].bpm = 0
                         \/ (samples[i].bpm > 0 /\ filter_bpm_min <= samples[i].bpm
                                                /\ samples[i].bpm <= filter_bpm_max))

\* An exact value is set: a record with that bpm is shown and a record
\* without bpm is hidden by the BPM criterion alone.
C4_Witness ==
    /\ filter_bpm_exact # 0
    /\ \E i \in RowIds : rows[i].visible /\ samples[i].bpm = filter_bpm_exact
    /\ \E i \in RowIds : /\ samples[i].bpm = 0
                         /\ TextPass(i) /\ TagPass(i) /\ TypePass(i) /\ KeyPass(i)
                         /\ ~rows[i].visible

\* C5: with a non-empty key filter set a record passes iff its key is not
\* empty and in the set, whatever the selected scale.
C5_KeyFilter ==
    \A i \in RowIds :
        (TextPass(i) /\ TagPass(i) /\ TypePass(i) /\ BpmPass(i))
            => (rows[i].visible <=>
                    (filter_keys = {} \/ (samples[i].key # << >> /\ samples[i].key \in filter_keys)))

\* Keys are selected with the scale Minor: a record with a selected key is
\* shown, a record without key is hidden by the key criterion alone.
C5_Witness ==
    /\ filter_keys # {}
    /\ filter_scale = "Minor"
    /\ \E i \in RowIds : rows[i].visible /\ samples[i].key \in filter_keys
    /\ \E i \in RowIds : /\ samples[i].key = << >>
                         /\ TextPass(i) /\ TagPass(i) /\ TypePass(i) /\ BpmPass(i)
                         /\ ~rows[i].visible

\* the whitespace-separated tokens of the text of the search box
TextWords == NonEmpty(SplitWs(search_text))

\* C6: a record that no other criterion excludes is visible iff every token of
\* the search text, lowercased and accent-stripped, is a substring of its
\* haystack; the haystack is lowercased and accent-stripped.
C6_TextFilter ==
    \A i \in RowIds :
        /\ samples[i].haystack = strip_accents_lower(samples[i].haystack)
        /\ (TagPass(i) /\ TypePass(i) /\ KeyPass(i) /\ BpmPass(i))
              => (rows[i].visible <=>
                      \A k \in 1..Len(TextWords) :
                          IsSubstring(strip_accents_lower(TextWords[k]), samples[i].haystack))

\* The text has a token that is in a haystack only after case folding and
\* accent stripping; one record is shown and one is hidden by the text alone.
C6_Witness ==
    /\ \E k \in 1..Len(TextWords) : TextWords[k] # strip_accents_lower(TextWords[k])
    /\ \E i \in RowIds : rows[i].visible
    /\ \E i \in RowIds : TagPass(i) /\ TypePass(i) /\ KeyPass(i) /\ BpmPass(i) /\ ~rows[i].visible

\* the favorite status the sort key reads, src/app.py:1241
IsFavorite(i) == samples[i].filename \in favorites

NormTitle(i) == strip_accents_lower(samples[i].title)

\* the positions p < q of two rows of an order that are both visible
VisiblePairs(order) ==
    { pq \in (1..Len(order)) \X (1..Len(order)) :
        pq[1] < pq[2] /\ rows[order[pq[1]]].visible /\ rows[order[pq[2]]].visible }

FavoritesFirst(order) ==
    \A pq \in VisiblePairs(order) :
        ~(~IsFavorite(order[pq[1]]) /\ IsFavorite(order[pq[2]]))

\* C7: in the visible order (the list layout and the navigation order) every
\* visible record whose filename is in favorites comes before every visible
\* record whose filename is not, also right after a favorite toggle.
C7_FavoritesFirst == FavoritesFirst(listLayout) /\ FavoritesFirst(_ordered_visible_rows)

\* A favorite is shown before a record that is not one and whose normalized
\* title is smaller.
C7_Witness ==
    \E pq \in VisiblePairs(listLayout) :
        /\ IsFavorite(listLayout[pq[1]])
        /\ ~IsFavorite(listLayout[pq[2]])
        /\ StrLess(NormTitle(listLayout[pq[2]]), NormTitle(listLayout[pq[1]]))

TitleOrdered(order) ==
    \A pq \in VisiblePairs(order) :
        LET a == order[pq[1]]
            b == order[pq[2]]
        IN  (IsFavorite(a) <=> IsFavorite(b))
                => /\ ~StrLess(NormTitle(b), NormTitle(a))
                   /\ (NormTitle(a) = NormTitle(b) => a < b)

\* C8: among visible records with the same favorite status the visible order
\* is ascending by the lowercased, accent-stripped title, and records with
\* equal normalized titles keep their scan order.
C8_TitleOrder == TitleOrdered(listLayout) /\ TitleOrdered(_ordered_visible_rows)

\* Two records of the same favorite status whose titles differ only in case
\* and accent are shown, and the sort moved a later scanned record before an
\* earlier one.
C8_Witness ==
    /\ \E pq \in VisiblePairs(listLayout) :
          LET a == listLayout[pq[1]]
              b == listLayout[pq[2]]
          IN  /\ (IsFavorite(a) <=> IsFavorite(b))
              /\ NormTitle(a) = NormTitle(b)
              /\ samples[a].title # samples[b].title
    /\ \E pq \in VisiblePairs(listLayout) :
          LET a == listLayout[pq[1]]
              b == listLayout[pq[2]]
          IN  (IsFavorite(a) <=> IsFavorite(b)) /\ a > b

\* the visible subset, as the paths of its records
VisibleSubset == { samples[i].path : i \in { j \in RowIds : rows[j].visible } }

\* C9: an event that changes the visible subset or the include or exclude set
\* leaves in the tag row the tag counts recomputed over the records that are
\* visible after the event.
C9_SuggestionsRecomputed ==
    [][ ( /\ phase = "running"
          /\ \/ VisibleSubset' # VisibleSubset
             \/ include_tags' # include_tags
             \/ exclude_tags' # exclude_tags )
        => tagRow'.tags = RefreshedTagRow(rows', samples', phase', include_tags',
                                          exclude_tags').tags ]_vars

\* C10: no tag of include_tags or exclude_tags is in the suggestion list of
\* the tag row.
C10_NoActiveTagSuggested ==
    \A k \in 1..Len(tagRow.tags) : tagRow.tags[k][1] \notin (include_tags \cup exclude_tags)

\* With an included tag, suggestions are listed while a shown record carries
\* the included tag.
C10_Witness ==
    /\ include_tags # {}
    /\ Len(tagRow.tags) > 0
    /\ \E i \in RowIds : isVisible(rows[i], phase) /\ include_tags \cap samples[i].tagset # {}

\* C11: the suggestion list is ordered by count, largest first, and entries of
\* equal count are in ascending order of the tag compared without case and
\* accents.
C11_SuggestionOrder ==
    \A k \in 1..(Len(tagRow.tags) - 1) :
        LET x == tagRow.tags[k]
            y == tagRow.tags[k + 1]
        IN  \/ x[2] > y[2]
            \/ /\ x[2] = y[2]
               /\ ~StrLess(strip_accents_lower(y[1]), strip_accents_lower(x[1]))

\* the current row is none or a row of the visible list
CurrentRowVisible ==
    \/ _current_row = 0
    \/ /\ _current_row \in 1..Len(rows)
       /\ rows[_current_row].visible
       /\ _current_row \in Range(_ordered_visible_rows)

\* C12: after a filter change, a favourite toggle or a folder change the
\* current row is none or a row of the new visible list, and a current row
\* that dropped out of the visible list (hidden by the filters, or replaced
\* with all rows by the folder change) has been unmarked as playing, the
\* player stopped and the pointer cleared.
C12_CurrentRowReconciled ==
    [][ /\ (filterVars' # filterVars \/ favorites' # favorites \/ FolderEvent)
              => CurrentRowVisible'
        /\ ( /\ _current_row \in 1..Len(rows')
             /\ rows[_current_row].visible
             /\ ~rows'[_current_row].visible )
              => /\ ~rows'[_current_row].isPlaying
                 /\ player'.state = "Stopped"
                 /\ _current_row' = 0
        /\ (FolderEvent /\ _current_row # 0)
              => /\ \A i \in 1..Len(rows') : ~rows'[i].isPlaying
                 /\ player'.state = "Stopped"
                 /\ _current_row' = 0 ]_vars

\* The row that was played last is hidden by the filters: it is not the
\* current row any more and the player is stopped.
C12_Witness ==
    /\ phase = "running"
    /\ \E i \in 1..Len(rows) :
          /\ samples[i].path = player.source
          /\ ~rows[i].visible
          /\ ~rows[i].isPlaying
    /\ _current_row = 0
    /\ player.state = "Stopped"
    /\ popover = FALSE

\* the audio files below a folder, as the set of their paths
AudioFiles(dir) == { p \in DiskFiles(dir) : Lower(Suffix(p[Len(p)])) \in VALID_EXTS }

\* C13: a change to another folder leaves a catalog (samples and rows) with
\* exactly one record per audio file of the new folder, each the record
\* scanned from that file, and none of the old folder; favorites and the
\* include, exclude, search, key, BPM and type filter state are what they
\* were before the change.
C13_FolderChange ==
    [][ samples_dir' # samples_dir
        => /\ { samples'[i].path : i \in 1..Len(samples') } = AudioFiles(samples_dir')
           /\ Len(samples') = Cardinality(AudioFiles(samples_dir'))
           /\ Len(rows') = Len(samples')
           /\ samples' = Scanned[samples_dir']
           /\ \A i \in 1..Len(samples') :
                 samples'[i].path \notin AudioFiles(samples_dir)
           /\ favorites' = favorites
           /\ filterVars' = filterVars ]_vars

\* Folder B is loaded with a favourite of the configuration and with tag,
\* type and BPM filters set.
C13_Witness ==
    /\ samples_dir = FolderB
    /\ Len(samples) = 1
    /\ rows[1].isFav
    /\ favorites # {}
    /\ include_tags # {}
    /\ filter_type # << >>
    /\ filter_bpm_exact # 0

\* the tags that the facets of a record stand for
FacetTags(s) ==
    Range(s.genres) \cup Range(s.generals) \cup Range(s.specifics)
        \cup (IF s.key # << >> THEN { s.key } ELSE {})
        \cup (IF s.sample_type # << >> THEN { s.sample_type } ELSE {})
        \cup (IF s.bpm > 0 THEN { IntToStr(s.bpm) } ELSE {})

\* C14: in every state after a load, whatever filter, favourite, playback
\* and navigation events came before, the tagset of each record is the union
\* of its genres, generals and specifics with its key, its sample type and
\* its BPM written as a string (each when present), and the records are the
\* ones computed by the scan of the current folder.
C14_RecordsAsScanned ==
    /\ \A i \in 1..Len(samples) : samples[i].tagset = FacetTags(samples[i])
    /\ samples = Scanned[samples_dir]

\* A record with a key and a BPM, after a favourite toggle, a filter change
\* and with a row paused.
C14_Witness ==
    /\ \E i \in 1..Len(samples) :
          /\ samples[i].key # << >>
          /\ samples[i].bpm > 0
          /\ samples[i].filename \in favorites
    /\ _current_row # 0
    /\ player.state = "Paused"
    /\ filter_type # << >>
    /\ search_tokens # << >>

\* the keys of the dict parse_from_path returns
FacetFields == { "sample_type", "genres", "generals", "specifics", "title", "key", "bpm" }

\* C15: every call of parse_from_path returns a facet record and none ends in
\* an exception, whether the path is the root itself, lies outside the root,
\* or carries malformed KEY_ or BPM_ values.
C15_ParseTotal ==
    parse_call.done
        => /\ ~parse_call.raised
           /\ DOMAIN parse_call.meta = FacetFields
           /\ parse_call.meta.bpm \in Nat

\* the components of the path of the call, relative to its root
CallParts == RelativeParts(parse_call.path, parse_call.root)

\* the base name up to its first _X_, and after it
BeforeX(base) ==
    IF Find(base, XSep) = 0 THEN base ELSE SubSeq(base, 1, Find(base, XSep) - 1)

AfterX(base) ==
    IF Find(base, XSep) = 0 THEN << >>
    ELSE SubSeq(base, Find(base, XSep) + Len(XSep), Len(base))

\* title, key and bpm as read from a tail
FromTailOf(tail, base) == TailFields(tail, base, ReSearchField(tail, BpmTag))

\* C16: for a path root/T/g/n/d1/.../dk/file with T equal to ONESHOT or LOOP
\* in any letter case, the record has sample_type T in lower case, genres
\* [g], generals [n], specifics d1..dk followed by the tokens of the file
\* name before its first _X_ with later duplicates dropped, and the title,
\* key and bpm of the part after that _X_.
C16_FolderGrammar ==
    (parse_call.done /\ Len(CallParts) >= 4 /\ Upper(CallParts[1]) \in { Oneshot, Loop })
        => LET parts == CallParts
               n     == Len(parts)
               base  == StripExt(parts[n])
               f     == FromTailOf(AfterX(base), base)
           IN  /\ ~parse_call.raised
               /\ parse_call.meta.sample_type = Lower(parts[1])
               /\ parse_call.meta.genres = << parts[2] >>
               /\ parse_call.meta.generals = << parts[3] >>
               /\ parse_call.meta.specifics
                     = Unique(SubSeq(parts, 4, n - 1)
                              \o NonEmpty(Split(BeforeX(base), << "_" >>)))
               /\ parse_call.meta.title = _clean_title_remove_trailing_number(f.title)
               /\ parse_call.meta.key = f.key
               /\ parse_call.meta.bpm = f.bpm

\* C17: in the folder grammar a missing genre or general folder gives an
\* empty list: root/T/file has no genres and no generals, root/T/g/file
\* has genres [g] and no generals, no call ends in an exception, and the
\* last component, the file name, is never a genre or a general.
C17_MissingLevels ==
    (parse_call.done /\ Len(CallParts) >= 2 /\ Upper(CallParts[1]) \in { Oneshot, Loop })
        => LET parts == CallParts
               n     == Len(parts)
           IN  /\ ~parse_call.raised
               /\ n = 2 => /\ parse_call.meta.genres = << >>
                           /\ parse_call.meta.generals = << >>
               /\ n = 3 => /\ parse_call.meta.genres = << parts[2] >>
                           /\ parse_call.meta.generals = << >>
               /\ parts[n] \notin Range(parse_call.meta.genres)
                                    \cup Range(parse_call.meta.generals)

\* the non-empty tokens of a part of a legacy name
PartTokens(part) == NonEmpty(Split(Strip(part), << "_" >>))

\* a legacy base name without its ONESHOT_ or LOOP_ prefix, any letter case
LegacyType(base0) ==
    IF StartsWith(Upper(base0), Oneshot \o << "_" >>) THEN Oneshot
    ELSE IF StartsWith(Upper(base0), Loop \o << "_" >>) THEN Loop
    ELSE << >>

LegacyRest(base0) ==
    IF LegacyType(base0) = << >> THEN base0
    ELSE DropFirst(base0, Len(LegacyType(base0)) + 1)

\* C18: when the first component below the root is not ONESHOT or LOOP, the
\* record is read from the file name alone: an ONESHOT_ or LOOP_ prefix in
\* any letter case gives the sample type and is consumed; the rest is cut at
\* its first three _X_ into a genre part (without a GENERO_ prefix), a
\* general part and a specific part, each split on "_" into non-empty
\* tokens, and the tail that remains gives title, key and bpm.
C18_LegacyGrammar ==
    ( /\ parse_call.done
      /\ ~parse_call.raised
      /\ CallParts # << >>
      /\ Upper(CallParts[1]) \notin { Oneshot, Loop } )
        => LET rest == LegacyRest(StripExt(CallParts[Len(CallParts)]))
               gpart == Strip(BeforeX(rest))
               after1 == AfterX(rest)
               after2 == AfterX(after1)
               tail == AfterX(after2)
               f == FromTailOf(tail, rest)
           IN  /\ parse_call.meta.sample_type
                     = Lower(LegacyType(StripExt(CallParts[Len(CallParts)])))
               /\ parse_call.meta.genres
                     = PartTokens(IF StartsWith(Upper(gpart), Genero)
                                  THEN DropFirst(gpart, Len(Genero)) ELSE gpart)
               /\ parse_call.meta.generals = PartTokens(BeforeX(after1))
               /\ parse_call.meta.specifics = PartTokens(BeforeX(after2))
               /\ parse_call.meta.title = _clean_title_remove_trailing_number(f.title)
               /\ parse_call.meta.key = f.key
               /\ parse_call.meta.bpm = f.bpm

\* ONESHOT_GENERO_house_X_drums_X_clap_snare_X_JAUS_KEY_NO_BPM_120.wav below
\* a folder that is not ONESHOT or LOOP gives oneshot, [house], [drums],
\* [clap, snare], title JAUS, no key, bpm 120.
C18_Witness ==
    /\ parse_call.done
    /\ ~parse_call.raised
    /\ Len(CallParts) = 4
    /\ CallParts[4] = NameLegacy
    /\ parse_call.meta
          = [sample_type |-> Lower(Oneshot),
             genres |-> << << "h", "o", "u", "s", "e" >> >>,
             generals |-> << << "d", "r", "u", "m", "s" >> >>,
             specifics |-> << << "c", "l", "a", "p" >>, << "s", "n", "a", "r", "e" >> >>,
             title |-> << "J", "A", "U", "S" >>,
             key |-> << >>,
             bpm |-> 120]

\* the call takes the folder grammar
FolderCall == Len(CallParts) >= 2 /\ Upper(CallParts[1]) \in { Oneshot, Loop }

\* the tail of the file name of the call: what follows the first _X_ in the
\* folder grammar, what follows the third _X_ of a legacy name
CallTail ==
    LET base == StripExt(CallParts[Len(CallParts)])
    IN  IF FolderCall THEN AfterX(base)
        ELSE AfterX(AfterX(AfterX(LegacyRest(base))))

\* a str of decimal digits
IsIntegerLiteral(v) == v # << >> /\ \A i \in 1..Len(v) : IsDecimal(v[i])

\* C19: in both grammars a KEY_ value that is missing, empty or NO in any
\* letter case gives no key; a BPM_ value that is missing, empty, NO in any
\* letter case or not a positive integer literal gives bpm 0, and a BPM_
\* value that is a positive integer literal gives that integer. (In the
\* folder grammar, stated for file names whose tail holds no further _X_.)
C19_Sentinels ==
    (parse_call.done /\ CallParts # << >> /\ (FolderCall => Find(CallTail, XSep) = 0))
        => LET mkey == ReSearchField(CallTail, KeyTag)
               mbpm == ReSearchField(CallTail, BpmTag)
               bpm_txt == Strip(mbpm.group)
           IN  /\ ~parse_call.raised
               /\ (~mkey.matched \/ Upper(Strip(mkey.group)) \in { << >>, NoWord })
                     => parse_call.meta.key = << >>
               /\ parse_call.meta.bpm
                     = IF mbpm.matched /\ IsIntegerLiteral(bpm_txt)
                       THEN DecimalValue(bpm_txt) ELSE 0

\* C20: in the folder grammar the tail of a file name is all that follows
\* the first _X_ of its base name, later _X_ included, so the title, key and
\* bpm of a record are those read from that whole tail.
C20_WholeTail ==
    (parse_call.done /\ ~parse_call.raised /\ FolderCall)
        => LET base == StripExt(CallParts[Len(CallParts)])
               f    == FromTailOf(AfterX(base), base)
           IN  /\ parse_call.meta.title = _clean_title_remove_trailing_number(f.title)
               /\ parse_call.meta.key = f.key
               /\ parse_call.meta.bpm = f.bpm

\* the tail up to the first KEY_ or BPM_ run, a run starting at the start of
\* the tail or after "_"
WithoutRuns(tail) ==
    LET starts == { k \in 1..Len(tail) :
                      /\ k = 1 \/ tail[k - 1] = "_"
                      /\ MatchAtCI(tail, k, KeyTag) \/ MatchAtCI(tail, k, BpmTag) }
    IN  IF starts = {} THEN tail
        ELSE SubSeq(tail, 1, (CHOOSE k \in starts : \A j \in starts : k <= j) - 1)

\* C21: in both grammars the title is the tail with its KEY_ and BPM_ runs
\* and all that follows them removed, "_" turned into spaces and trimmed;
\* when nothing remains (a tail that begins with KEY_ or BPM_, or no tail)
\* it is the base name without extension; the trailing number is then
\* removed. So the title never holds the run the key or bpm was read from.
\* (In the folder grammar, stated for file names whose tail holds no
\* further _X_.)
C21_TitleExtraction ==
    ( /\ parse_call.done
      /\ ~parse_call.raised
      /\ CallParts # << >>
      /\ FolderCall => Find(CallTail, XSep) = 0 )
        => LET base == StripExt(CallParts[Len(CallParts)])
               t    == Strip(ReplaceChar(WithoutRuns(CallTail), "_", " "))
           IN  parse_call.meta.title
                 = _clean_title_remove_trailing_number(IF t # << >> THEN t ELSE base)

\* C23: in every record, genres, generals and specifics hold no value twice.
NoDuplicate(list) == \A i, j \in 1..Len(list) : list[i] = list[j] => i = j

C23_FacetsDistinct ==
    (parse_call.done /\ ~parse_call.raised)
        => /\ NoDuplicate(parse_call.meta.genres)
           /\ NoDuplicate(parse_call.meta.generals)
           /\ NoDuplicate(parse_call.meta.specifics)

\* the visible rows from top to bottom of the list
DisplayedRows == SelectSeq(listLayout, LAMBDA i : isVisible(rows[i], phase))

C25_OnePlaying == \A i \in 1..Len(rows) : rows[i].isPlaying => i = _current_row

\* the position a step of delta from position idx of a list of n rows ends at
Clamped(idx, delta, n) ==
    IF idx + delta < 1 THEN 1 ELSE IF idx + delta > n THEN n ELSE idx + delta

\* C30: the walked list holds exactly the visible rows; a Down or Up key
\* with no current row in that list selects its first or its last row, and
\* otherwise the row one position after or before the current one, staying
\* at the last or first row at the ends; the selected row is visible.
C30_MoveSelection ==
    [][ \A delta \in { -1, 1 } :
          _move_selection(delta)
            => LET rws == SelectionRows
                   at  == { k \in 1..Len(rws) : rws[k] = _current_row }
               IN  /\ Range(rws) = { i \in 1..Len(rows) : isVisible(rows[i], phase) }
                   /\ NoDuplicate(rws)
                   /\ isVisible(rows'[_current_row'], phase')
                   /\ at = {} => _current_row' = rws[IF delta = 1 THEN 1 ELSE Len(rws)]
                   /\ \A k \in at : _current_row' = rws[Clamped(k, delta, Len(rws))] ]_vars

\* the Down key has moved the selection from the first to the second of
\* three visible rows
C30_Witness ==
    /\ Len(SelectionRows) = 3
    /\ _current_row = SelectionRows[2]
    /\ player.state = "Playing"
    /\ rows[_current_row].visible

\* the indices at which [\s\-]*\d+\s*$ matches title: whitespace and hyphens,
\* then one or more digits, then whitespace up to the end
NumberRunStarts(title) ==
    LET n == Len(title)
    IN  { i \in 1..n :
            \E j \in i..n, k \in (i + 1)..(n + 1) :
                /\ j < k
                /\ \A x \in i..(j - 1) : IsSpace(title[x]) \/ title[x] = "-"
                /\ \A x \in j..(k - 1) : IsDecimal(title[x])
                /\ \A x \in k..n : IsSpace(title[x]) }

\* C22: the result is the title without its trailing run of whitespace and
\* hyphens, digits and whitespace, trimmed; when that is empty the result is
\* the title as given. A title that is not empty never becomes empty.
C22_TrailingNumber ==
    clean_call.done
        => LET title   == clean_call.title
               starts  == NumberRunStarts(title)
               first   == CHOOSE i \in starts : \A j \in starts : i <= j
               removed == IF starts = {} THEN title ELSE SubSeq(title, 1, first - 1)
           IN  /\ clean_call.result
                     = IF Strip(removed) # << >> THEN Strip(removed) ELSE title
               /\ title # << >> => clean_call.result # << >>

\* '808 mafia 1' has become '808 mafia'
C22_Witness ==
    /\ clean_call.done
    /\ clean_call.title = << "8", "0", "8", " ", "m", "a", "f", "i", "a", " ", "1" >>
    /\ clean_call.result = << "8", "0", "8", " ", "m", "a", "f", "i", "a" >>

\* C29: for every label k of the key buttons, the record of a file name
\* with KEY_k read in the folder grammar passes the key criterion of
\* _apply_filters when the key filter is { k }.
C29_KeyLabels ==
    \A k \in KeyLabels :
        ( /\ parse_call.done
          /\ ~parse_call.raised
          /\ FolderCall
          /\ CallParts[Len(CallParts)] = KeyName(k) )
            => KeyCriterion(parse_call.meta, { k })

\* C28: after any sequence of star clicks, the star of a row is on exactly
\* when its file name is in favorites, also when two files of the folder
\* have the same name.
C28_StarsMatchFavorites ==
    \A i \in 1..Len(rows) : rows[i].isFav <=> samples[i].filename \in favorites

\* the filter popovers that are visible
VisiblePopovers == { p \in FilterPopovers : filterPopovers[p] }

\* C26: at most one of the Key, BPM and Type popovers is visible, before
\* and after every click on a filter button, self-close, Escape and click
\* outside; a click on the button of the visible popover hides it and a
\* click on the button of a hidden popover, one that closed itself
\* included, shows it.
C26_OnePopover ==
    [][ /\ Cardinality(VisiblePopovers) <= 1
        /\ Cardinality(VisiblePopovers') <= 1
        /\ \A p \in FilterPopovers :
              _toggle_popover(p, Button(p)) => filterPopovers'[p] = ~filterPopovers[p] ]_vars

\* the Type popover is visible again after a choice of Loops closed it
C26_Witness ==
    /\ filterPopovers["typePop"]
    /\ _active_popover = "typePop"
    /\ filter_type = Lower(Loop)

\* src/app.py:1205-1257, the attributes of self that _apply_filters reads
ApplyFiltersReads ==
    { "rows", "samples", "search_tokens", "include_tags", "exclude_tags", "filter_type",
      "filter_keys", "filter_bpm_exact", "filter_bpm_min", "filter_bpm_max", "favorites",
      "listLayout", "_current_row", "player", "popover" }

\* C27: when __init__ calls _apply_filters, every attribute that
\* _apply_filters reads has been assigned, and construction does not end in
\* an AttributeError.
C27_AssignedBeforeUse ==
    /\ phase = "_apply_filters" => ApplyFiltersReads \subseteq assigned
    /\ phase # "raised"

====
